---- MODULE Spec2Model ----
(***************************************************************************)
(* Model of the media-delivery front end of 10xCapesDeck.                  *)
(*                                                                         *)
(*  - SpecRegistry: the Viewport Observation Registry, the singleton       *)
(*    LazyLoadManager of src/lib/intersection-observer.ts, driven by       *)
(*    arbitrary clients and by the host's IntersectionObserver.            *)
(*  - SpecVideo: the Media Lifecycle Controller, the LazyVideo component   *)
(*    of src/components/LazyVideo.tsx (lines 478-865, the variant with     *)
(*    priority handling, saved position, reduced motion and mute policy),  *)
(*    driven by registry notifications, media events, timers, the motion   *)
(*    preference and the user.                                             *)
(*  - SpecHash: the hash synchroniser of src/lib/hash-scroll.ts, and       *)
(*    SpecScore: the scoring of sections by updateActiveSectionHash.       *)
(*  - SpecImage: the URL builders of src/lib/bunny-cdn.ts (getCdnUrl,      *)
(*    bunnyImage, bunnyVideoFile), applied to bounded inputs.              *)
(*  - SpecPage: a page of several LazyVideo and LazyImage components       *)
(*    (src/components/LazyImage.tsx) sharing the one registry.             *)
(***************************************************************************)
EXTENDS Integers, Sequences, FiniteSets, TLC

(***************************************************************************)
(* Bounds of the model.                                                    *)
(***************************************************************************)
\* number of distinct target elements offered to the registry
NumTargets == 2
\* number of distinct callback functions clients may register
NumCallbacks == 2
\* longest batch of entries the host queues before delivering it
MaxBatch == 2

Targets == 1..NumTargets
Callbacks == 1..NumCallbacks
None == 0
\* no callback is being invoked
NoCall == [target |-> None, cb |-> None]

VARIABLES
    \* ---- LazyLoadManager (intersection-observer.ts:13-64)
    observer,        \* this.observer is non-null
    entries,         \* this.entries: the Map, as a set of <<element, callback>>
    \* ---- the host's IntersectionObserver instances made by createObserver
    hostHasWatcher,  \* the host defines the IntersectionObserver constructor
    liveWatchers,    \* watchers created and not yet disconnected
    observedTargets, \* targets the live watcher observes
    queued,          \* entries the host has queued and not yet delivered
    batch,           \* entries of the batch being dispatched (forEach in progress)
    running,         \* the callback being invoked: [target, cb], or NoCall
    \* ---- history of the client calls
    gone,            \* targets unobserve()d since they were last observe()d
    latest,          \* per target, the callback most recently passed to observe
                     \* and not unregistered since (None: none)
    replaced,        \* registered targets whose callback a later observe replaced
    everObserved,    \* observe has been called at least once
    lastOp,          \* the client call this step made ("none": a step of the host)
    lastTarget,      \* the element that call was given (None: none)
    lastThrew,       \* that call ended by throwing
    lastHadEntry,    \* the Map held that element when the call was made
    lastOpNested,    \* that call was made from inside a callback
    mutatedInBatch   \* a callback of the batch being dispatched has called
                     \* the registry

VARIABLES
    \* ---- LazyVideo (LazyVideo.tsx:478-865)
    unit,            \* the component instance and its <video> element
    prefersReduced   \* matchMedia('(prefers-reduced-motion: reduce)').matches

VARIABLES
    \* ---- initHashScroll (hash-scroll.ts:7-353)
    sync             \* the synchronizer's closure, the page's sections and the URL

VARIABLES
    \* ---- one call of a function that has no state of its own
    invocation       \* its arguments, its environment and its outcome

VARIABLES
    \* ---- a page with several components on it and the singleton registry
    tree             \* the components, and what the last step was

vidVars == <<unit, prefersReduced>>

pageVars == <<tree>>

hashVars == <<sync>>

pureVars == <<invocation>>

regVars == <<hostHasWatcher, observer, entries, liveWatchers, observedTargets,
             queued, batch, running, gone, latest, replaced, everObserved,
             lastOp, lastTarget, lastThrew, lastHadEntry, lastOpNested,
             mutatedInBatch>>

vars == <<regVars, vidVars, hashVars, pureVars, pageVars>>

(***************************************************************************)
(* The Map this.entries.  A Map holds one value per key; it is modelled as *)
(* a set of pairs so that this is a property of set/delete, not of the     *)
(* model's typing.                                                         *)
(***************************************************************************)
MapHas(m, k) == \E p \in m : p[1] = k

MapGetAny(m, k) == IF m # {} THEN (CHOOSE p \in m : TRUE)[2] ELSE None

MapGet(m, k) == IF MapHas(m, k) THEN (CHOOSE p \in m : p[1] = k)[2] ELSE None

MapSetKeepingOld(m, k, v) == m \cup {<<k, v>>}

MapSet(m, k, v) == {p \in m : p[1] # k} \cup {<<k, v>>}

MapDeleteNothing(m, k) == m

MapDeleteOthers(m, k) == {p \in m : p[1] = k}

MapDelete(m, k) == {p \in m : p[1] # k}

MapKeys(m) == {p[1] : p \in m}

(***************************************************************************)
(* The registry as a value, so that a call made from inside a callback is  *)
(* the same function of the state as a call made from outside.             *)
(***************************************************************************)
Reg == [observer |-> observer, entries |-> entries, liveWatchers |-> liveWatchers,
        observedTargets |-> observedTargets, hostHasWatcher |-> hostHasWatcher,
        threw |-> FALSE]

\* createObserver(): a new host watcher; new IntersectionObserver(...) throws
\* a ReferenceError on a host that does not define the constructor
createObserver(r) ==
    IF r.hostHasWatcher
    THEN [r EXCEPT !.liveWatchers = @ + 1, !.observedTargets = {}]
    ELSE [r EXCEPT !.threw = TRUE]

observeAlwaysCreates(r, element, callback) ==
    LET r1 == createObserver(r)
    IN  IF r1.threw THEN r1
        ELSE [r1 EXCEPT !.observer = TRUE,
                        !.entries = MapSet(@, element, callback),
                        !.observedTargets = @ \cup {element}]

\* observe(element, callback); when createObserver throws, the assignment to
\* this.observer and the statements after it are not reached
observe(r, element, callback) ==
    LET r1 == IF ~r.observer THEN createObserver(r) ELSE r
    IN  IF r1.threw THEN r1
        ELSE [r1 EXCEPT !.observer = TRUE,
                        !.entries = MapSet(@, element, callback),
                        !.observedTargets = @ \cup {element}]

unobserveKeepingEntry(r, element) ==
    IF r.observer
    THEN [r EXCEPT !.observedTargets = @ \ {element}]
    ELSE r

\* unobserve(element)
unobserve(r, element) ==
    IF r.observer
    THEN [r EXCEPT !.observedTargets = @ \ {element},
                   !.entries = MapDelete(@, element)]
    ELSE r

disconnectKeepingEntries(r) ==
    IF r.observer
    THEN [r EXCEPT !.liveWatchers = @ - 1, !.observedTargets = {},
                   !.observer = FALSE]
    ELSE r

\* disconnect()
disconnect(r) ==
    IF r.observer
    THEN [r EXCEPT !.liveWatchers = @ - 1, !.observedTargets = {},
                   !.observer = FALSE, !.entries = {}]
    ELSE r

(***************************************************************************)
(* Client calls: from the top level, or from inside a callback.            *)
(***************************************************************************)
ClientCalls ==
    [kind : {"observe"}, target : Targets, cb : Callbacks]
    \cup [kind : {"unobserve"}, target : Targets, cb : {None}]
    \cup [kind : {"disconnect"}, target : {None}, cb : {None}]

Apply(r, call) ==
    CASE call.kind = "observe" -> observe(r, call.target, call.cb)
      [] call.kind = "unobserve" -> unobserve(r, call.target)
      [] call.kind = "disconnect" -> disconnect(r)
      [] OTHER -> r

\* the registry's fields and the history after a client call
DoCall(call, nested) ==
    LET r == Apply(Reg, call)
    IN  /\ observer' = r.observer
        /\ entries' = r.entries
        /\ liveWatchers' = r.liveWatchers
        /\ observedTargets' = r.observedTargets
        /\ hostHasWatcher' = hostHasWatcher
        /\ gone' = CASE r.threw -> gone
                     [] call.kind = "observe" -> gone \ {call.target}
                     [] call.kind = "unobserve" -> gone \cup {call.target}
                     [] OTHER -> gone
        /\ latest' = CASE r.threw -> latest
                       [] call.kind = "observe" -> [latest EXCEPT ![call.target] = call.cb]
                       [] call.kind = "unobserve" -> [latest EXCEPT ![call.target] = None]
                       [] OTHER -> [t \in Targets |-> None]
        /\ replaced' = CASE r.threw -> replaced
                         [] call.kind = "observe" ->
                              IF MapGet(entries, call.target) \notin {None, call.cb}
                              THEN replaced \cup {call.target} ELSE replaced
                         [] call.kind = "unobserve" -> replaced \ {call.target}
                         [] OTHER -> {}
        /\ everObserved' = (everObserved \/ (call.kind = "observe" /\ ~r.threw))
        /\ lastOp' = call.kind
        /\ lastTarget' = call.target
        /\ lastThrew' = r.threw
        /\ lastHadEntry' = MapHas(entries, call.target)
        /\ lastOpNested' = nested
        /\ mutatedInBatch' = (mutatedInBatch \/ nested)

Idle == batch = <<>> /\ running = NoCall

\* a step that is no client call
HostStep ==
    /\ lastOp' = "none"
    /\ lastTarget' = None
    /\ lastThrew' = FALSE
    /\ lastHadEntry' = FALSE
    /\ lastOpNested' = FALSE

\* a client calls observe(element, callback) outside any dispatch
Observe(t, c) ==
    /\ Idle
    /\ DoCall([kind |-> "observe", target |-> t, cb |-> c], FALSE)
    /\ UNCHANGED <<queued, batch, running>>
    /\ UNCHANGED <<vidVars, hashVars, pureVars, pageVars>>

\* a client calls unobserve(element) outside any dispatch
Unobserve(t) ==
    /\ Idle
    /\ DoCall([kind |-> "unobserve", target |-> t, cb |-> None], FALSE)
    /\ UNCHANGED <<queued, batch, running>>
    /\ UNCHANGED <<vidVars, hashVars, pureVars, pageVars>>

\* a client calls disconnect() outside any dispatch
Disconnect ==
    /\ Idle
    /\ DoCall([kind |-> "disconnect", target |-> None, cb |-> None], FALSE)
    /\ UNCHANGED <<queued, batch, running>>
    /\ UNCHANGED <<vidVars, hashVars, pureVars, pageVars>>

(***************************************************************************)
(* The host: a live watcher queues an entry for a target it observes, and  *)
(* later delivers what it has queued as one batch.  unobserve() and        *)
(* disconnect() do not take back entries already queued.                   *)
(***************************************************************************)
WatcherQueue(t) ==
    /\ Idle
    /\ liveWatchers > 0
    /\ t \in observedTargets
    /\ Len(queued) < MaxBatch
    /\ queued' = Append(queued, t)
    /\ UNCHANGED <<hostHasWatcher, observer, entries, liveWatchers, observedTargets, batch,
                   running, gone, latest, replaced, everObserved>>
    /\ UNCHANGED mutatedInBatch
    /\ HostStep
    /\ UNCHANGED <<vidVars, hashVars, pureVars, pageVars>>

\* the host calls the watcher's callback with the queued entries
DispatchBegin ==
    /\ Idle
    /\ queued # <<>>
    /\ batch' = queued
    /\ queued' = <<>>
    /\ mutatedInBatch' = FALSE
    /\ UNCHANGED <<hostHasWatcher, observer, entries, liveWatchers, observedTargets, running,
                   gone, latest, replaced, everObserved>>
    /\ HostStep
    /\ UNCHANGED <<vidVars, hashVars, pureVars, pageVars>>

\* one iteration of entries.forEach: look the target up, invoke what is stored
DispatchStep ==
    /\ batch # <<>>
    /\ running = NoCall
    /\ LET stored == MapGet(entries, Head(batch))
       IN  IF stored # None
           THEN /\ running' = [target |-> Head(batch), cb |-> stored]
                /\ batch' = batch
           ELSE /\ running' = NoCall
                /\ batch' = Tail(batch)
    /\ UNCHANGED <<hostHasWatcher, observer, entries, liveWatchers, observedTargets, queued,
                   gone, latest, replaced, everObserved>>
    /\ UNCHANGED mutatedInBatch
    /\ HostStep
    /\ UNCHANGED <<vidVars, hashVars, pureVars, pageVars>>

\* the invoked callback returns without calling the registry
CallbackReturn ==
    /\ running # NoCall
    /\ running' = NoCall
    /\ batch' = Tail(batch)
    /\ UNCHANGED <<hostHasWatcher, observer, entries, liveWatchers, observedTargets, queued,
                   gone, latest, replaced, everObserved>>
    /\ UNCHANGED mutatedInBatch
    /\ HostStep
    /\ UNCHANGED <<vidVars, hashVars, pureVars, pageVars>>

\* the invoked callback calls the registry, then returns
CallbackCalls(call) ==
    /\ running # NoCall
    /\ DoCall(call, TRUE)
    /\ running' = NoCall
    /\ batch' = Tail(batch)
    /\ UNCHANGED queued
    /\ UNCHANGED <<vidVars, hashVars, pureVars, pageVars>>

InitRegistry ==
    /\ hostHasWatcher \in BOOLEAN
    /\ observer = FALSE
    /\ entries = {}
    /\ liveWatchers = 0
    /\ observedTargets = {}
    /\ queued = <<>>
    /\ batch = <<>>
    /\ running = NoCall
    /\ gone = {}
    /\ latest = [t \in Targets |-> None]
    /\ replaced = {}
    /\ everObserved = FALSE
    /\ lastOp = "none"
    /\ lastTarget = None
    /\ lastThrew = FALSE
    /\ lastHadEntry = FALSE
    /\ lastOpNested = FALSE
    /\ mutatedInBatch = FALSE
    /\ tree = None
    \* no component is mounted on the page and no synchronizer runs
    /\ unit = None
    /\ prefersReduced = FALSE
    /\ sync = None
    /\ invocation = None

NextRegistry ==
    \/ \E t \in Targets, c \in Callbacks : Observe(t, c)
    \/ \E t \in Targets : Unobserve(t)
    \/ Disconnect
    \/ \E t \in Targets : WatcherQueue(t)
    \/ DispatchBegin
    \/ DispatchStep
    \/ CallbackReturn
    \/ \E call \in ClientCalls : CallbackCalls(call)


(***************************************************************************)
(*                     The Media Lifecycle Controller                      *)
(*                                                                         *)
(* One LazyVideo component instance (LazyVideo.tsx:478-865) and its <video>*)
(* element.  The unit is a record; every handler of the component is an    *)
(* operator from the unit before the handler to the unit after it, React's *)
(* re-render and the effects the state change triggers included.           *)
(***************************************************************************)

\* largest playback position the model follows
MaxTime == 1
\* most play promises pending at once that the model follows
MaxPending == 2
\* most retry timers outstanding at once that the model follows
MaxRetryTimers == 1

\* HTMLMediaElement.readyState
HAVE_NOTHING == 0
HAVE_CURRENT_DATA == 2
HAVE_FUTURE_DATA == 3
HAVE_ENOUGH_DATA == 4
\* the timeouts the animation-frame callback starts (50, 150, 300, 600 ms)
NumProbeTimeouts == 4
\* volume, in percent of the maximum
VolumeMuted == 0
VolumeUnmuted == 55
VolumeDefault == 100


\* element.getBoundingClientRect() against the window, as the probes read it:
\* not laid out and far away, not laid out and near the viewport, laid out
Rects == {[width |-> 0, height |-> 0, inViewport |-> FALSE],
          [width |-> 0, height |-> 0, inViewport |-> TRUE],
          [width |-> 1, height |-> 1, inViewport |-> TRUE]}

\* the <video> element React creates when shouldLoad is rendered true
NewVideo(u) ==
    [u EXCEPT !.video = TRUE,
              !.readyState = HAVE_NOTHING,
              !.currentTime = 0,
              !.paused = TRUE,
              !.muted = u.mutedProp,
              !.volume = VolumeDefault,
              !.volumeChangePending = FALSE,
              !.pendFirst = 0,
              !.pendRetry = 0]

\* the retry's test before it plays (LazyVideo.tsx:762)
RetryPlays(u) == u.muted /\ u.readyState >= HAVE_CURRENT_DATA

\* React removes the <video> element: the host pauses it, which rejects its
\* pending play promises; retry timeouts that hold the element stay
\* scheduled, and those whose element passes the retry's test will play it
DetachVideo(u) ==
    LET stale == u.retryTimers + (IF u.paused THEN 0 ELSE u.pendFirst) > 0
    IN  [u EXCEPT !.video = FALSE,
                  !.readyState = HAVE_NOTHING,
                  !.currentTime = 0,
                  !.paused = TRUE,
                  !.muted = TRUE,
                  !.volume = VolumeDefault,
                  !.volumeChangePending = FALSE,
                  !.volumeListener = FALSE,
                  !.canPlayListener = FALSE,
                  !.pendFirst = 0,
                  !.pendRetry = 0,
                  !.retryTimers = 0,
                  !.staleRetryTimers = @ \/ (stale /\ ~RetryPlays(u)),
                  !.stalePlayTimers = @ \/ (stale /\ RetryPlays(u))]

\* savedTimeRef.current = video.currentTime
CapturePosition(u) ==
    [u EXCEPT !.savedTimeRef = u.currentTime,
              !.lateCapture = @ \/ u.pauseIssued]

\* the catch handler of restoreAndPlay's play promise: retry after 200 ms
OnFirstRejected(u, n) == [u EXCEPT !.retryTimers = @ + n, !.firstRejected = @ + n]

OnRetryRejectedRetriesAgain(u, n) == [u EXCEPT !.retryTimers = @ + n]

\* the catch handler of the retry's play promise: log only
OnRetryRejected(u, n) == u

\* video.pause(): a playing or play-pending element is paused and its
\* pending play promises are rejected (AbortError)
pause(u) ==
    LET u1 == [u EXCEPT !.pauseIssued = TRUE]
    IN  IF u.paused
        THEN u1
        ELSE OnRetryRejected(
                 OnFirstRejected([u1 EXCEPT !.paused = TRUE,
                                            !.pendFirst = 0,
                                            !.pendRetry = 0],
                                 u.pendFirst),
                 u.pendRetry)

\* video.play(): refused at once when the host does not allow playback
\* (NotAllowedError), pending until playback starts otherwise
play(u, kind, allowed) ==
    LET u1 == [u EXCEPT !.playsIssued = @ + 1]
    IN  IF ~allowed
        THEN IF kind = "first" THEN OnFirstRejected(u1, 1) ELSE OnRetryRejected(u1, 1)
        ELSE IF kind = "first"
             THEN [u1 EXCEPT !.paused = FALSE, !.pendFirst = @ + 1]
             ELSE [u1 EXCEPT !.paused = FALSE, !.pendRetry = @ + 1]

\* video.muted = m; video.volume = v (a change queues a volumechange event)
SetVolume(u, m, v) ==
    [u EXCEPT !.muted = m, !.volume = v,
              !.volumeChangePending = @ \/ u.muted # m \/ u.volume # v]

\* restoreAndPlay's test before seeking
CanSeek(u) == u.readyState >= HAVE_CURRENT_DATA

\* restoreAndPlay (LazyVideo.tsx:741-773)
restoreAndPlay(u, allowed) ==
    LET u1 == IF u.mutedProp THEN SetVolume(u, TRUE, VolumeMuted) ELSE u
        u2 == IF u1.savedTimeRef > 0 /\ CanSeek(u1)
              THEN [u1 EXCEPT !.currentTime = u1.savedTimeRef,
                              !.seekReadyState = u1.readyState]
              ELSE u1
    IN  IF u2.autoPlay THEN play(u2, "first", allowed) ELSE u2

(***************************************************************************)
(* The effects of the component, in the order it declares them.  Each body *)
(* reads the state of the render it belongs to (the unit's state fields)   *)
(* and its setState calls write the pending fields pShouldLoad, ...        *)
(***************************************************************************)

\* loadImmediately (LazyVideo.tsx:575-582)
loadImmediately(u, rect) ==
    IF rect.width > 0 \/ rect.height > 0
    THEN [u EXCEPT !.pIsIntersecting = TRUE, !.pShouldLoad = TRUE]
    ELSE u

\* checkInitialIntersection (LazyVideo.tsx:547-570)
checkInitialIntersection(u, rect) ==
    LET hasDimensions == rect.width > 0 /\ rect.height > 0
    IN  IF hasDimensions \/ rect.inViewport \/ u.priority
        THEN [u EXCEPT !.pIsIntersecting = TRUE, !.pShouldLoad = TRUE]
        ELSE u

\* the probes every animation-frame and timeout callback runs
Probe(u, rect) == loadImmediately(checkInitialIntersection(u, rect), rect)

UnloadOnLeaveIgnoringPriority(u) == ~u.cbReducedMotion

UnloadOnLeaveIgnoringMotion(u) == ~u.priority

\* the leave branch's test before setShouldLoad(false) (LazyVideo.tsx:642)
UnloadOnLeave(u) == ~u.priority /\ ~u.cbReducedMotion

\* the callback passed to lazyLoadManager.observe (LazyVideo.tsx:625-646)
ObserverCallback(u, isIntersecting) ==
    IF isIntersecting
    THEN [u EXCEPT !.pIsIntersecting = TRUE, !.pShouldLoad = TRUE]
    ELSE LET u1 == [u EXCEPT !.pIsIntersecting = FALSE]
             u2 == IF u1.video THEN pause(CapturePosition(u1)) ELSE u1
         IN  IF UnloadOnLeave(u2) THEN [u2 EXCEPT !.pShouldLoad = FALSE] ELSE u2

\* the intersection effect's test for loading at once (LazyVideo.tsx:540)
LoadsAtOnce(u) == u.priority \/ u.reducedMotion

\* the intersection effect (LazyVideo.tsx:533-647), deps [priority, reducedMotion]
IntersectionEffect(u, rect) ==
    LET u1 == IF LoadsAtOnce(u)
              THEN [u EXCEPT !.pShouldLoad = TRUE, !.pIsIntersecting = TRUE]
              ELSE u
        u2 == loadImmediately(u1, rect)
        u3 == IF ~u2.hasCheckedInitialLoad
              THEN [loadImmediately(checkInitialIntersection(u2, rect), rect)
                       EXCEPT !.hasCheckedInitialLoad = TRUE]
              ELSE u2
    IN  [u3 EXCEPT !.rafPending = TRUE,
                   !.probeTimeouts = 0,
                   !.observing = TRUE,
                   !.cbReducedMotion = u.reducedMotion,
                   !.lastNotified = "none"]

\* its cleanup (LazyVideo.tsx:648-655)
IntersectionCleanup(u) ==
    [u EXCEPT !.rafPending = FALSE, !.probeTimeouts = 0, !.observing = FALSE,
              !.lastNotified = "none"]

\* the safeguard effect (LazyVideo.tsx:661-673), deps [shouldLoad, isIntersecting]
SafeguardEffect(u) ==
    IF u.shouldLoad /\ ~u.isIntersecting
    THEN [u EXCEPT !.safeguardTimeout = TRUE]
    ELSE u

SafeguardCleanup(u) == [u EXCEPT !.safeguardTimeout = FALSE]

\* the mute effect (LazyVideo.tsx:676-690), deps [shouldLoad, props.muted]
MuteEffect(u) ==
    IF u.video /\ u.shouldLoad
    THEN IF u.mutedProp
         THEN SetVolume(u, TRUE, VolumeMuted)
         ELSE SetVolume(u, u.muted, VolumeUnmuted)
    ELSE u

\* the volumechange effect (LazyVideo.tsx:693-715), deps [shouldLoad]
VolumeEffect(u) ==
    IF u.video /\ u.shouldLoad
    THEN [u EXCEPT !.pIsMuted = u.muted, !.volumeListener = TRUE]
    ELSE u

VolumeCleanup(u) == [u EXCEPT !.volumeListener = FALSE]

ReadyToPlayAlways(u) == TRUE

\* the play effect's test for playing at once (LazyVideo.tsx:776)
ReadyToPlay(u) == u.readyState >= HAVE_FUTURE_DATA

\* the play/pause effect (LazyVideo.tsx:727-790),
\* deps [isIntersecting, shouldLoad, reducedMotion, props.autoPlay, props.muted]
PlayEffect(u, allowed) ==
    IF ~u.video \/ ~u.shouldLoad \/ u.reducedMotion
    THEN u
    ELSE IF ~u.isIntersecting
         THEN pause(CapturePosition(u))
         ELSE IF ReadyToPlay(u)
              THEN restoreAndPlay(u, allowed)
              ELSE [u EXCEPT !.canPlayListener = TRUE]

PlayCleanup(u) == [u EXCEPT !.canPlayListener = FALSE]

(***************************************************************************)
(* React: commit the pending state, render (the <video> element exists     *)
(* exactly while shouldLoad is rendered true), then run the cleanups and   *)
(* bodies of the effects whose dependencies changed; repeat while an       *)
(* effect set state.                                                       *)
(***************************************************************************)
Commit(u) ==
    [u EXCEPT !.shouldLoad = u.pShouldLoad,
              !.isIntersecting = u.pIsIntersecting,
              !.reducedMotion = u.pReducedMotion,
              !.isMuted = u.pIsMuted]

Render(u) ==
    IF u.shouldLoad /\ ~u.video THEN NewVideo(u)
    ELSE IF ~u.shouldLoad /\ u.video THEN DetachVideo(u)
    ELSE u

Dirty(u) ==
    \/ u.shouldLoad # u.pShouldLoad
    \/ u.isIntersecting # u.pIsIntersecting
    \/ u.reducedMotion # u.pReducedMotion
    \/ u.isMuted # u.pIsMuted

\* most render passes one event causes
MaxPasses == 6

\* F applied to the value of x, which is computed once
With(x, F(_)) == CHOOSE r \in {F(v) : v \in {x}} : TRUE

RECURSIVE Flush(_, _, _, _)
Flush(u0, rect, allowed, n) ==
    With(u0, LAMBDA u :
    IF ~Dirty(u) \/ n = 0
    THEN u
    ELSE With(Render(Commit(u)), LAMBDA c :
         With([sl |-> c.shouldLoad # u.shouldLoad,
               ii |-> c.isIntersecting # u.isIntersecting,
               rm |-> c.reducedMotion # u.reducedMotion], LAMBDA ch :
         With(IF ch.rm THEN IntersectionCleanup(c) ELSE c, LAMBDA k2 :
         With(IF ch.sl \/ ch.ii THEN SafeguardCleanup(k2) ELSE k2, LAMBDA k3 :
         With(IF ch.sl THEN VolumeCleanup(k3) ELSE k3, LAMBDA k5 :
         With(IF ch.sl \/ ch.ii \/ ch.rm THEN PlayCleanup(k5) ELSE k5, LAMBDA k6 :
         With(IF ch.rm THEN IntersectionEffect(k6, rect) ELSE k6, LAMBDA b2 :
         With(IF ch.sl \/ ch.ii THEN SafeguardEffect(b2) ELSE b2, LAMBDA b3 :
         With(IF ch.sl THEN MuteEffect(b3) ELSE b3, LAMBDA b4 :
         With(IF ch.sl THEN VolumeEffect(b4) ELSE b4, LAMBDA b5 :
         With(IF ch.sl \/ ch.ii \/ ch.rm THEN PlayEffect(b5, allowed) ELSE b5, LAMBDA b6 :
         Flush(b6, rect, allowed, n - 1)))))))))))))

\* what one step of the component records about itself
Begin(u) ==
    [u EXCEPT !.pauseIssued = FALSE,
              !.lateCapture = FALSE,
              !.seekReadyState = -1,
              !.playsIssued = 0,
              !.firstRejected = 0,
              !.retryFired = FALSE]

NewUnit(priority, autoPlay, mutedProp) ==
    [phase |-> "new",
     priority |-> priority, autoPlay |-> autoPlay, mutedProp |-> mutedProp,
     shouldLoad |-> FALSE, isIntersecting |-> FALSE, reducedMotion |-> FALSE,
     isMuted |-> TRUE,
     pShouldLoad |-> FALSE, pIsIntersecting |-> FALSE, pReducedMotion |-> FALSE,
     pIsMuted |-> TRUE,
     savedTimeRef |-> 0, hasCheckedInitialLoad |-> FALSE,
     rafPending |-> FALSE, probeTimeouts |-> 0, observing |-> FALSE,
     cbReducedMotion |-> FALSE, lastNotified |-> "none",
     safeguardTimeout |-> FALSE, volumeListener |-> FALSE, canPlayListener |-> FALSE,
     video |-> FALSE, readyState |-> HAVE_NOTHING, currentTime |-> 0, paused |-> TRUE,
     muted |-> TRUE, volume |-> VolumeDefault, volumeChangePending |-> FALSE,
     pendFirst |-> 0, pendRetry |-> 0, retryTimers |-> 0,
     staleRetryTimers |-> FALSE, stalePlayTimers |-> FALSE,
     \* what the last step did
     pauseIssued |-> FALSE, lateCapture |-> FALSE, seekReadyState |-> -1,
     playsIssued |-> 0, firstRejected |-> 0, retryFired |-> FALSE,
     \* history: no visible notification and no change of the motion preference
     \* since the mount; the preference has changed to reduced since the mount
     quiet |-> TRUE, becameReduced |-> FALSE]

InitialShouldLoadDormant == FALSE

\* useState(true) for shouldLoad (LazyVideo.tsx:494)
InitialShouldLoad == TRUE

\* useState(true) for isIntersecting (LazyVideo.tsx:495)
InitialIsIntersecting == TRUE

\* mount: first render, then every effect runs once
MountUnit(u, reduced, rect, allowed) ==
    LET r == Render([u EXCEPT !.phase = "mounted",
                              !.shouldLoad = InitialShouldLoad,
                              !.pShouldLoad = InitialShouldLoad,
                              !.isIntersecting = InitialIsIntersecting,
                              !.pIsIntersecting = InitialIsIntersecting])
        b1 == [r EXCEPT !.pReducedMotion = reduced]
        b2 == IntersectionEffect(b1, rect)
        b3 == SafeguardEffect(b2)
        b4 == MuteEffect(b3)
        b5 == VolumeEffect(b4)
        b6 == PlayEffect(b5, allowed)
    IN  Flush(b6, rect, allowed, MaxPasses)

\* unmount: every effect's cleanup runs and the element is removed
UnmountUnit(u) ==
    LET k == PlayCleanup(VolumeCleanup(SafeguardCleanup(IntersectionCleanup(u))))
        d == IF k.video THEN DetachVideo(k) ELSE k
    IN  [d EXCEPT !.phase = "unmounted"]

(***************************************************************************)
(* The events of a unit's life.                                            *)
(***************************************************************************)
NoRect == [width |-> 0, height |-> 0, inViewport |-> FALSE]

InBounds(u) ==
    /\ u.pendFirst + u.pendRetry <= MaxPending
    /\ u.retryTimers <= MaxRetryTimers

Mounted == unit.phase = "mounted"

\* the host page mounts the component
Mount(rect, allowed) ==
    /\ unit.phase = "new"
    /\ unit' = MountUnit(Begin(unit), prefersReduced, rect, allowed)
    /\ InBounds(unit')
    /\ UNCHANGED <<prefersReduced, regVars, hashVars, pureVars, pageVars>>

\* the host page unmounts the component
Unmount ==
    /\ Mounted
    /\ unit' = UnmountUnit(Begin(unit))
    /\ InBounds(unit')
    /\ UNCHANGED <<prefersReduced, regVars, hashVars, pureVars, pageVars>>

\* the unit after the registry has invoked its callback
NotifyUnit(u, isIntersecting, allowed) ==
    LET u0 == [Begin(u) EXCEPT
                  !.lastNotified = IF isIntersecting THEN "enter" ELSE "leave",
                  !.quiet = @ /\ ~isIntersecting]
    IN  Flush(ObserverCallback(u0, isIntersecting), NoRect, allowed, MaxPasses)

\* the registry invokes the unit's callback: the target entered or left
Notify(isIntersecting, allowed) ==
    /\ Mounted
    /\ unit.observing
    /\ unit.lastNotified # (IF isIntersecting THEN "enter" ELSE "leave")
    /\ unit' = NotifyUnit(unit, isIntersecting, allowed)
    /\ InBounds(unit')
    /\ UNCHANGED <<prefersReduced, regVars, hashVars, pureVars, pageVars>>

\* handleChange of the reduced-motion media query (LazyVideo.tsx:522-527)
handleChange(u, matches) ==
    LET u1 == [u EXCEPT !.pReducedMotion = matches]
    IN  IF matches THEN [u1 EXCEPT !.pShouldLoad = TRUE] ELSE u1

\* the unit after the media query's change event
MotionChangeUnit(u, matches, rect, allowed) ==
    LET u0 == [Begin(u) EXCEPT !.quiet = FALSE,
                               !.becameReduced = @ \/ matches]
    IN  Flush(handleChange(u0, matches), rect, allowed, MaxPasses)

\* the user's motion preference changes
MotionPreferenceChange(rect, allowed) ==
    /\ prefersReduced' = ~prefersReduced
    /\ IF Mounted
       THEN unit' = MotionChangeUnit(unit, ~prefersReduced, rect, allowed)
       ELSE unit' = unit
    /\ InBounds(unit')
    /\ UNCHANGED <<regVars, hashVars, pureVars, pageVars>>

AnimationFrameUnit(u, rect, allowed) ==
    LET u0 == [Begin(u) EXCEPT !.rafPending = FALSE,
                               !.probeTimeouts = NumProbeTimeouts]
    IN  Flush(Probe(u0, rect), NoRect, allowed, MaxPasses)

\* the requestAnimationFrame callback (LazyVideo.tsx:601-622)
AnimationFrame(rect, allowed) ==
    /\ Mounted
    /\ unit.rafPending
    /\ unit' = AnimationFrameUnit(unit, rect, allowed)
    /\ InBounds(unit')
    /\ UNCHANGED <<prefersReduced, regVars, hashVars, pureVars, pageVars>>

ProbeTimeoutUnit(u, rect, allowed) ==
    LET u0 == [Begin(u) EXCEPT !.probeTimeouts = @ - 1]
    IN  Flush(Probe(u0, rect), NoRect, allowed, MaxPasses)

\* one of the four probe timeouts fires
ProbeTimeout(rect, allowed) ==
    /\ Mounted
    /\ unit.probeTimeouts > 0
    /\ unit' = ProbeTimeoutUnit(unit, rect, allowed)
    /\ InBounds(unit')
    /\ UNCHANGED <<prefersReduced, regVars, hashVars, pureVars, pageVars>>

SafeguardTimeoutUnit(u, allowed) ==
    LET u0 == [Begin(u) EXCEPT !.safeguardTimeout = FALSE,
                               !.pIsIntersecting = TRUE]
    IN  Flush(u0, NoRect, allowed, MaxPasses)

\* the safeguard timeout fires (LazyVideo.tsx:664-669)
SafeguardTimeout(allowed) ==
    /\ Mounted
    /\ unit.safeguardTimeout
    /\ unit' = SafeguardTimeoutUnit(unit, allowed)
    /\ InBounds(unit')
    /\ UNCHANGED <<prefersReduced, regVars, hashVars, pureVars, pageVars>>

MediaProgressUnit(u, rs, allowed) ==
    LET u0 == [Begin(u) EXCEPT !.readyState = rs]
    IN  IF rs = HAVE_ENOUGH_DATA /\ u0.canPlayListener
        THEN [restoreAndPlay(u0, allowed) EXCEPT !.canPlayListener = FALSE]
        ELSE u0

\* the resource buffers: readyState rises (HAVE_METADATA, which the component
\* does not tell from HAVE_NOTHING, is passed over); reaching HAVE_ENOUGH_DATA fires
\* canplaythrough, whose listener is handleCanPlayThrough (LazyVideo.tsx:780-783)
MediaProgress(rs, allowed) ==
    /\ unit.video
    /\ rs > unit.readyState
    /\ unit' = MediaProgressUnit(unit, rs, allowed)
    /\ InBounds(unit')
    /\ UNCHANGED <<prefersReduced, regVars, hashVars, pureVars, pageVars>>

CanPlaybackStart(u) ==
    /\ u.video
    /\ u.pendFirst + u.pendRetry > 0
    /\ u.readyState >= HAVE_FUTURE_DATA

PlaybackStartsUnit(u) == [Begin(u) EXCEPT !.pendFirst = 0, !.pendRetry = 0]

\* playback starts: the pending play promises resolve
PlaybackStarts ==
    /\ CanPlaybackStart(unit)
    /\ unit' = PlaybackStartsUnit(unit)
    /\ UNCHANGED <<prefersReduced, regVars, hashVars, pureVars, pageVars>>

CanTimeAdvance(u) ==
    /\ u.video
    /\ ~u.paused
    /\ u.pendFirst + u.pendRetry = 0
    /\ u.readyState >= HAVE_FUTURE_DATA
    /\ u.currentTime < MaxTime

TimeAdvancesUnit(u) == [Begin(u) EXCEPT !.currentTime = @ + 1]

\* the playing element's position advances
TimeAdvances ==
    /\ CanTimeAdvance(unit)
    /\ unit' = TimeAdvancesUnit(unit)
    /\ UNCHANGED <<prefersReduced, regVars, hashVars, pureVars, pageVars>>

RetryTimeoutUnit(u, allowed) ==
    LET u0 == [Begin(u) EXCEPT !.retryTimers = @ - 1, !.retryFired = TRUE]
    IN  IF RetryPlays(u0) THEN play(u0, "retry", allowed) ELSE u0

\* the 200 ms retry timeout of a rejected play (LazyVideo.tsx:761-769)
RetryTimeout(allowed) ==
    /\ unit.video
    /\ unit.retryTimers > 0
    /\ unit' = RetryTimeoutUnit(unit, allowed)
    /\ InBounds(unit')
    /\ UNCHANGED <<prefersReduced, regVars, hashVars, pureVars, pageVars>>

StaleRetryTimeoutUnit(u, plays, more) ==
    IF plays
    THEN [Begin(u) EXCEPT !.stalePlayTimers = more]
    ELSE [Begin(u) EXCEPT !.staleRetryTimers = more]

\* a retry timeout whose element React has removed fires (others of its kind
\* may remain): it calls play() on the removed element if that passes the
\* retry's test (LazyVideo.tsx:761-769)
StaleRetryTimeout(plays, more) ==
    /\ IF plays THEN unit.stalePlayTimers ELSE unit.staleRetryTimers
    /\ unit' = StaleRetryTimeoutUnit(unit, plays, more)
    /\ UNCHANGED <<prefersReduced, regVars, hashVars, pureVars, pageVars>>

\* handleVolumeChange (LazyVideo.tsx:697-705)
handleVolumeChange(u) == [u EXCEPT !.pIsMuted = u.muted]

VolumeChangeUnit(u) ==
    LET u0 == [Begin(u) EXCEPT !.volumeChangePending = FALSE]
    IN  Flush(IF u0.volumeListener THEN handleVolumeChange(u0) ELSE u0,
              NoRect, TRUE, MaxPasses)

\* the element's queued volumechange event is delivered
VolumeChange ==
    /\ unit.video
    /\ unit.volumeChangePending
    /\ unit' = VolumeChangeUnit(unit)
    /\ UNCHANGED <<prefersReduced, regVars, hashVars, pureVars, pageVars>>

handleUnmuteToFullVolume(u) ==
    IF u.video THEN SetVolume(u, FALSE, VolumeDefault) ELSE u

\* handleUnmute (LazyVideo.tsx:718-724)
handleUnmute(u) == IF u.video THEN SetVolume(u, FALSE, VolumeUnmuted) ELSE u

\* the button is rendered while showUnmuteButton && isMuted && shouldLoad
\* (LazyVideo.tsx:853); the unit is taken to show the button (without it the
\* user never clicks)
CanUnmute(u) ==
    /\ u.phase = "mounted"
    /\ u.isMuted /\ u.shouldLoad
    /\ u.muted

\* the user clicks the unmute button
UserUnmutes ==
    /\ CanUnmute(unit)
    /\ unit' = handleUnmute(Begin(unit))
    /\ UNCHANGED <<prefersReduced, regVars, hashVars, pureVars, pageVars>>

InitVideo ==
    /\ unit \in {NewUnit(p, a, m) : p \in BOOLEAN, a \in BOOLEAN, m \in BOOLEAN}
    /\ prefersReduced \in BOOLEAN
    \* the registry as constructed; the unit's registration is the unit's
    \* field observing and the registry's callbacks are the Notify steps
    /\ hostHasWatcher = TRUE
    /\ observer = FALSE
    /\ entries = {}
    /\ liveWatchers = 0
    /\ observedTargets = {}
    /\ queued = <<>>
    /\ batch = <<>>
    /\ running = NoCall
    /\ gone = {}
    /\ latest = [t \in Targets |-> None]
    /\ replaced = {}
    /\ everObserved = FALSE
    /\ lastOp = "none"
    /\ lastTarget = None
    /\ lastThrew = FALSE
    /\ lastHadEntry = FALSE
    /\ lastOpNested = FALSE
    /\ mutatedInBatch = FALSE
    /\ tree = None
    /\ sync = None
    /\ invocation = None

NextVideo ==
    \/ \E rect \in Rects, allowed \in BOOLEAN : Mount(rect, allowed)
    \/ Unmount
    \/ \E v \in BOOLEAN, allowed \in BOOLEAN : Notify(v, allowed)
    \/ \E rect \in Rects, allowed \in BOOLEAN : MotionPreferenceChange(rect, allowed)
    \/ \E rect \in Rects, allowed \in BOOLEAN : AnimationFrame(rect, allowed)
    \/ \E rect \in Rects, allowed \in BOOLEAN : ProbeTimeout(rect, allowed)
    \/ \E allowed \in BOOLEAN : SafeguardTimeout(allowed)
    \/ \E rs \in HAVE_CURRENT_DATA..HAVE_ENOUGH_DATA, allowed \in BOOLEAN :
          MediaProgress(rs, allowed)
    \/ PlaybackStarts
    \/ TimeAdvances
    \/ \E allowed \in BOOLEAN : RetryTimeout(allowed)
    \/ \E plays \in BOOLEAN, more \in BOOLEAN : StaleRetryTimeout(plays, more)
    \/ VolumeChange
    \/ UserUnmutes

(***************************************************************************)
(*                     The Scroll-Hash Synchronizer                        *)
(*                                                                         *)
(* initHashScroll of src/lib/hash-scroll.ts.  Text is a sequence of        *)
(* characters; the characters below stand for the classes the slug's       *)
(* regular expressions tell apart (lower-case letter, upper-case letter,   *)
(* digit, underscore, white space, hyphen, other).                         *)
(***************************************************************************)
Chars == {"a", "A", "1", "_", " ", "-", "!"}

\* \w after toLowerCase()
WordChars == {"a", "1", "_"}

\* String.prototype.toLowerCase, per character
LowerChar(c) == IF c = "A" THEN "a" ELSE c

toLowerCase(s) == [i \in 1..Len(s) |-> LowerChar(s[i])]

RECURSIVE TrimStart(_)
TrimStart(s) == IF s # <<>> /\ Head(s) = " " THEN TrimStart(Tail(s)) ELSE s

RECURSIVE TrimEnd(_)
TrimEnd(s) ==
    IF s # <<>> /\ s[Len(s)] = " " THEN TrimEnd(SubSeq(s, 1, Len(s) - 1)) ELSE s

\* String.prototype.trim
trim(s) == TrimEnd(TrimStart(s))

IsKeptChar(c) == c \in WordChars \cup {" ", "-"}

\* .replace(/[^\w\s-]/g, '')
RemoveSpecial(s) == SelectSeq(s, IsKeptChar)

\* replace every maximal run of the character from by one character to
RECURSIVE ReplaceRuns(_, _, _)
ReplaceRuns(s, from, to) ==
    IF s = <<>> THEN <<>>
    ELSE IF Head(s) # from THEN <<Head(s)>> \o ReplaceRuns(Tail(s), from, to)
    ELSE IF Len(s) > 1 /\ s[2] = from THEN ReplaceRuns(Tail(s), from, to)
    ELSE <<to>> \o ReplaceRuns(Tail(s), from, to)

\* .replace(/^-|-$/g, ''): one hyphen at the start and one at the end
StripEdgeHyphens(s) ==
    LET a == IF s # <<>> /\ Head(s) = "-" THEN Tail(s) ELSE s
    IN  IF a # <<>> /\ a[Len(a)] = "-" THEN SubSeq(a, 1, Len(a) - 1) ELSE a

\* the slug of a heading's text (hash-scroll.ts:362-370)
Slug(text) ==
    StripEdgeHyphens(
        ReplaceRuns(ReplaceRuns(RemoveSpecial(text), " ", "-"), "-", "-"))

\* the positional fallback `section-${index + 1}`, index counted from 0
PositionalId(index) == <<"section", "-", ToString(index + 1)>>

SlugOrPositional(slug, index) ==
    IF Len(slug) > 0 THEN slug ELSE PositionalId(index)

\* generateSectionId (hash-scroll.ts:358-378); heading is the text of the
\* section's first heading, empty if it has none
generateSectionId(heading, index) ==
    LET text == toLowerCase(trim(heading))
    IN  IF text # <<>> THEN SlugOrPositional(Slug(text), index) ELSE PositionalId(index)

\* window.innerHeight
ViewportHeight == 6
\* how far beyond the viewport's edges the model lets a section's box reach
RectReach == 2

\* section.getBoundingClientRect(), vertical extent relative to the viewport
Rects1D ==
    {[top |-> t, bottom |-> b] :
        t \in (0 - RectReach)..(ViewportHeight + RectReach),
        b \in (0 - RectReach)..(ViewportHeight + RectReach)}

SectionRects == {r \in Rects1D : r.top <= r.bottom}

Max(a, b) == IF a >= b THEN a ELSE b

Min(a, b) == IF a <= b THEN a ELSE b

Abs(a) == IF a >= 0 THEN a ELSE 0 - a

\* visibleHeight (hash-scroll.ts:172-174)
VisibleHeight(r) == Max(0, Min(ViewportHeight, r.bottom) - Max(0, r.top))

\* centerScore as a fraction of 2 * viewportHeight (hash-scroll.ts:190-193):
\* centerScore = CenterNum(r) / (2 * ViewportHeight)
CenterNum(r) == Max(0, 2 * ViewportHeight - Abs(r.top + r.bottom - ViewportHeight))

\* visibilityRatio > 0.7 && centerScore > 0.5 (hash-scroll.ts:202)
IsSnapped(r) ==
    /\ 10 * VisibleHeight(r) > 7 * (r.bottom - r.top)
    /\ CenterNum(r) > ViewportHeight

\* visibilityRatio > 0.9 && centerScore > 0.7 (hash-scroll.ts:206)
IsPerfectlySnapped(r) ==
    /\ 10 * VisibleHeight(r) > 9 * (r.bottom - r.top)
    /\ 10 * CenterNum(r) > 14 * ViewportHeight

ScoreIgnoringCenter(r) ==
    [num |-> VisibleHeight(r), den |-> r.bottom - r.top]

\* the score of a section with positive visible height (hash-scroll.ts:199-212)
\* as the fraction num / den, den = 20 * height * viewportHeight
Score(r) ==
    LET h == r.bottom - r.top
        vh == VisibleHeight(r)
        cn == CenterNum(r)
        v == ViewportHeight
    IN  [num |-> IF IsSnapped(r)
                 THEN 10 * vh * v + 5 * cn * h
                      + (IF IsPerfectlySnapped(r) THEN 6 * h * v ELSE 0)
                 ELSE 12 * vh * v + 4 * cn * h,
         den |-> 20 * h * v]

\* score > maxScore
ScoreGreater(a, b) == a.num * b.den > b.num * a.den

\* let maxScore = -1, activeSection = null, fallbackSection = null,
\* maxVisibleArea = 0 (hash-scroll.ts:158-161)
ScanStart ==
    [maxScore |-> [num |-> -1, den |-> 1], active |-> None,
     fallback |-> None, maxVisibleArea |-> 0]

\* one iteration of the loop over the sections (hash-scroll.ts:166-217);
\* section is [el, id, rect]
ScanSection(acc, section) ==
    IF section.id = <<>>
    THEN acc
    ELSE LET vh == VisibleHeight(section.rect)
             a1 == IF vh > acc.maxVisibleArea
                   THEN [acc EXCEPT !.maxVisibleArea = vh, !.fallback = section.el]
                   ELSE acc
         IN  IF vh = 0
             THEN a1
             ELSE IF ScoreGreater(Score(section.rect), a1.maxScore)
                  THEN [a1 EXCEPT !.maxScore = Score(section.rect),
                                  !.active = section.el]
                  ELSE a1

RECURSIVE Scan(_, _)
Scan(acc, secs) ==
    IF secs = <<>> THEN acc ELSE Scan(ScanSection(acc, Head(secs)), Tail(secs))

\* the section updateActiveSectionHash settles on (hash-scroll.ts:158-223),
\* None if there is none
ActiveSection(secs) ==
    LET acc == Scan(ScanStart, secs)
    IN  IF acc.active = None /\ acc.fallback # None THEN acc.fallback ELSE acc.active

\* section elements the page may hold
NumElements == 2
Elements == 1..NumElements
\* most guard timeouts pending at once that the model follows
MaxGuards == 2
\* most history entries the model follows
MaxHistory == 2

\* texts of a section's first heading: words, punctuation only, no heading
Headings == {<<"A", " ", "a">>, <<"!">>, <<>>}

\* id attributes the page's author gave
ExplicitIds == {<<>>, <<"a">>}

\* ids of the elements of the document that are not sections
OtherIds == {<<"1">>}

\* what document.getElementById returns for the id of such an element
OtherElement == NumElements + 1

\* fragments a URL may carry: none, the slug of a heading (which names a
\* section only on a page that has the heading), the id of an element that
\* is not a section
Fragments == {<<>>, <<"a", "-", "a">>} \cup OtherIds

\* sequences of distinct elements: the sections of the page in document order
Pages ==
    {p \in UNION {[1..n -> Elements] : n \in 0..NumElements} :
        \A i \in 1..Len(p), j \in 1..Len(p) : p[i] = p[j] => i = j}

\* boxes the sections have while the synchronizer runs: scrolled out above
\* the viewport, or snapped and filling it
TrackedRects ==
    {[top |-> 0 - ViewportHeight, bottom |-> 0],
     [top |-> 0, bottom |-> ViewportHeight]}

Layouts == [Elements -> TrackedRects]

\* position of an element in the page (1-based), 0 if it is not in it
PositionOf(page, el) ==
    IF \E i \in 1..Len(page) : page[i] = el
    THEN CHOOSE i \in 1..Len(page) : page[i] = el
    ELSE 0

ensureSectionIdsAlways(y) ==
    [y EXCEPT !.sectionId =
        [el \in Elements |->
            IF PositionOf(y.page, el) > 0
            THEN generateSectionId(y.heading[el], PositionOf(y.page, el) - 1)
            ELSE y.sectionId[el]]]

\* ensureSectionIds (hash-scroll.ts:12-21)
ensureSectionIds(y) ==
    [y EXCEPT !.sectionId =
        [el \in Elements |->
            IF PositionOf(y.page, el) > 0 /\ y.sectionId[el] = <<>>
            THEN generateSectionId(y.heading[el], PositionOf(y.page, el) - 1)
            ELSE y.sectionId[el]]]

\* document.getElementById(id): the first section in document order that
\* has the id, or the element that is not a section and has it
getElementById(y, id) ==
    LET hits == {i \in 1..Len(y.page) : y.sectionId[y.page[i]] = id}
    IN  IF id = <<>> THEN None
        ELSE IF hits # {} THEN y.page[CHOOSE i \in hits : \A j \in hits : i <= j]
        ELSE IF id \in OtherIds THEN OtherElement
        ELSE None

\* the sections as the scoring loop reads them
SectionsOf(y) ==
    [i \in 1..Len(y.page) |->
        [el |-> y.page[i], id |-> y.sectionId[y.page[i]], rect |-> y.layout[y.page[i]]]]

\* pending timeouts that will reset isUpdatingHash
GuardsPending(y) == y.guards.initial + y.guards.pop

\* window.history.replaceState, or when it throws window.location.hash = ...
\* (hash-scroll.ts:236-243)
WriteHash(y, newHash, throws) ==
    IF ~throws
    THEN [y EXCEPT !.hash = newHash, !.wrote = "replace"]
    ELSE [y EXCEPT !.hash = newHash, !.historyLen = @ + 1, !.wrote = "assign"]

updateActiveSectionHashOnce(y, throws) ==
    IF y.isUpdatingHash \/ y.hash # <<>>
    THEN y
    ELSE LET e == ensureSectionIds(y)
             active == ActiveSection(SectionsOf(e))
         IN  IF e.page = <<>> \/ active = None THEN e
             ELSE WriteHash(e, e.sectionId[active], throws)

\* updateActiveSectionHash (hash-scroll.ts:148-246)
updateActiveSectionHash(y, throws) ==
    IF y.isUpdatingHash
    THEN y
    ELSE LET e == ensureSectionIds(y)
             active == ActiveSection(SectionsOf(e))
         IN  IF e.page = <<>> \/ active = None THEN e
             ELSE IF e.hash # e.sectionId[active]
                  THEN WriteHash(e, e.sectionId[active], throws)
                  ELSE e

\* a step starts: what the last step wrote to the URL is forgotten
SyncBegin(y) == [y EXCEPT !.wrote = "none"]

\* what the page's author wrote for a section: an id attribute (the heading is
\* then never read), or no id and some heading
Markups ==
    [id : ExplicitIds \ {<<>>}, heading : {<<>>}]
        \cup [id : {<<>>}, heading : Headings]

\* the page before initHashScroll runs: its sections and their markup, and
\* the fragment of the URL it was opened with
NewSync(page, markup, hash) ==
    [phase |-> "page", page |-> page,
     heading |-> [el \in Elements |-> markup[el].heading],
     sectionId |-> [el \in Elements |-> markup[el].id],
     layout |-> [el \in Elements |-> [top |-> 0, bottom |-> ViewportHeight]],
     isUpdatingHash |-> FALSE, guards |-> [initial |-> 0, pop |-> 0],
     checkpoints |-> 0, initialHash |-> <<>>, hash |-> hash, historyLen |-> 1,
     wrote |-> "none"]

ReadyStates == {"loading", "interactive", "complete"}

\* initHashScroll up to the registration of its listeners
\* (hash-scroll.ts:7-10, 61-144, 250-352); pendingHash is what sessionStorage
\* holds under 'pendingHashScroll'
initHashScroll(readyState, pendingHash) ==
    /\ sync.phase = "page"
    /\ sync' =
         IF sync.page = <<>>
         THEN [SyncBegin(sync) EXCEPT !.phase = "idle"]
         ELSE LET e == ensureSectionIds(SyncBegin(sync))
                  initialHash == IF e.hash # <<>> THEN e.hash ELSE pendingHash
              IN  [e EXCEPT !.phase = "running",
                            !.initialHash = initialHash,
                            !.checkpoints =
                                IF initialHash = <<>> THEN 0
                                ELSE IF readyState = "loading" THEN 2 ELSE 1]
    /\ UNCHANGED <<regVars, vidVars, pureVars, pageVars>>

\* scrollToTarget (hash-scroll.ts:83-108), run by one of the load checkpoints
\* (112-143); layout is where the sections are after scrollIntoView, which is
\* not animated here and puts the target's top at the top of the viewport
scrollToTarget(layout) ==
    /\ sync.phase = "running"
    /\ sync.checkpoints > 0
    /\ LET e == ensureSectionIds(SyncBegin(sync))
           targetSection == getElementById(e, e.initialHash)
       IN  IF targetSection = None
           THEN /\ layout = sync.layout
                /\ sync' = [e EXCEPT !.checkpoints = @ - 1]
           ELSE /\ GuardsPending(sync) < MaxGuards
                /\ targetSection \in Elements => layout[targetSection].top = 0
                /\ sync' = [e EXCEPT !.checkpoints = @ - 1,
                                     !.isUpdatingHash = TRUE,
                                     !.layout = layout,
                                     !.guards.initial = @ + 1]
    /\ UNCHANGED <<regVars, vidVars, pureVars, pageVars>>

\* the timeout of scrollToTarget (hash-scroll.ts:102-106)
InitialGuardTimeout(throws) ==
    /\ sync.guards.initial > 0
    /\ throws => sync.historyLen < MaxHistory
    /\ sync' = updateActiveSectionHash(
                   [SyncBegin(sync) EXCEPT !.isUpdatingHash = FALSE,
                                           !.guards.initial = @ - 1], throws)
    /\ UNCHANGED <<regVars, vidVars, pureVars, pageVars>>

PopGuardTimeoutKeepingFlag ==
    /\ sync.guards.pop > 0
    /\ sync' = [SyncBegin(sync) EXCEPT !.guards.pop = @ - 1]
    /\ UNCHANGED <<regVars, vidVars, pureVars, pageVars>>

\* the timeout of the popstate handler (hash-scroll.ts:347-349)
PopGuardTimeout ==
    /\ sync.guards.pop > 0
    /\ sync' = [SyncBegin(sync) EXCEPT !.isUpdatingHash = FALSE,
                                       !.guards.pop = @ - 1]
    /\ UNCHANGED <<regVars, vidVars, pureVars, pageVars>>

PopStateGuardingAlways(hash) ==
    /\ sync.phase = "running"
    /\ GuardsPending(sync) < MaxGuards
    /\ sync' = [SyncBegin(sync) EXCEPT !.hash = hash,
                                       !.isUpdatingHash = TRUE,
                                       !.guards.pop = @ + 1]
    /\ UNCHANGED <<regVars, vidVars, pureVars, pageVars>>

\* the popstate handler (hash-scroll.ts:337-352), after the browser moved to
\* a history entry whose fragment is hash
PopState(hash) ==
    /\ sync.phase = "running"
    /\ LET y == [SyncBegin(sync) EXCEPT !.hash = hash]
       IN  IF getElementById(y, hash) = None
           THEN sync' = y
           ELSE /\ GuardsPending(sync) < MaxGuards
                /\ sync' = [y EXCEPT !.isUpdatingHash = TRUE,
                                     !.guards.pop = @ + 1]
    /\ UNCHANGED <<regVars, vidVars, pureVars, pageVars>>

\* any of the triggers of visibility tracking: the intersection observer
\* (250-265), the scroll listeners (270-291), setInitialHash (295-320), the
\* periodic check (324-328); throws says whether replaceState throws
Track(throws) ==
    /\ sync.phase = "running"
    /\ throws => sync.historyLen < MaxHistory
    /\ sync' = updateActiveSectionHash(SyncBegin(sync), throws)
    /\ UNCHANGED <<regVars, vidVars, pureVars, pageVars>>

\* the page scrolls or is laid out again
Scroll(layout) ==
    /\ sync.phase = "running"
    /\ layout # sync.layout
    /\ sync' = [SyncBegin(sync) EXCEPT !.layout = layout]
    /\ UNCHANGED <<regVars, vidVars, pureVars, pageVars>>

\* a section element is put into the page, before position pos
InsertSection(el, pos) ==
    /\ sync.phase = "running"
    /\ PositionOf(sync.page, el) = 0
    /\ pos \in 1..(Len(sync.page) + 1)
    /\ sync' = [SyncBegin(sync) EXCEPT !.page =
                   SubSeq(sync.page, 1, pos - 1) \o <<el>>
                       \o SubSeq(sync.page, pos, Len(sync.page))]
    /\ UNCHANGED <<regVars, vidVars, pureVars, pageVars>>

\* a section element is taken out of the page
RemoveSection(el) ==
    /\ sync.phase = "running"
    /\ PositionOf(sync.page, el) > 0
    /\ sync' = [SyncBegin(sync) EXCEPT !.page =
                   SelectSeq(sync.page, LAMBDA x : x # el)]
    /\ UNCHANGED <<regVars, vidVars, pureVars, pageVars>>

\* a page is opened; the registry is as constructed and no unit is mounted
InitHash ==
    /\ sync \in {NewSync(page, markup, hash) :
                    page \in Pages, markup \in [Elements -> Markups],
                    hash \in Fragments}
    /\ hostHasWatcher = TRUE
    /\ observer = FALSE
    /\ entries = {}
    /\ liveWatchers = 0
    /\ observedTargets = {}
    /\ queued = <<>>
    /\ batch = <<>>
    /\ running = NoCall
    /\ gone = {}
    /\ latest = [t \in Targets |-> None]
    /\ replaced = {}
    /\ everObserved = FALSE
    /\ lastOp = "none"
    /\ lastTarget = None
    /\ lastThrew = FALSE
    /\ lastHadEntry = FALSE
    /\ lastOpNested = FALSE
    /\ mutatedInBatch = FALSE
    /\ tree = None
    /\ unit = None
    /\ prefersReduced = FALSE
    /\ invocation = None

\* a page of two sections is opened, the first with a heading and no id
InitHashLive ==
    /\ sync \in {NewSync(<<1, 2>>, markup, hash) :
                    markup \in {m \in [Elements -> Markups] :
                                   m[1] = [id |-> <<>>, heading |-> <<"A", " ", "a">>]},
                    hash \in Fragments}
    /\ hostHasWatcher = TRUE
    /\ observer = FALSE
    /\ entries = {}
    /\ liveWatchers = 0
    /\ observedTargets = {}
    /\ queued = <<>>
    /\ batch = <<>>
    /\ running = NoCall
    /\ gone = {}
    /\ latest = [t \in Targets |-> None]
    /\ replaced = {}
    /\ everObserved = FALSE
    /\ lastOp = "none"
    /\ lastTarget = None
    /\ lastThrew = FALSE
    /\ lastHadEntry = FALSE
    /\ lastOpNested = FALSE
    /\ mutatedInBatch = FALSE
    /\ tree = None
    /\ unit = None
    /\ prefersReduced = FALSE
    /\ invocation = None

NextHash ==
    \/ \E readyState \in ReadyStates, pendingHash \in Fragments :
          initHashScroll(readyState, pendingHash)
    \/ \E layout \in Layouts : scrollToTarget(layout)
    \/ \E throws \in BOOLEAN : InitialGuardTimeout(throws)
    \/ PopGuardTimeout
    \/ \E hash \in Fragments : PopState(hash)
    \/ \E throws \in BOOLEAN : Track(throws)
    \/ \E layout \in Layouts : Scroll(layout)
    \/ \E el \in Elements, pos \in 1..NumElements : InsertSection(el, pos)
    \/ \E el \in Elements : RemoveSection(el)

\* the positions in document order of the two sections the loop is run on
ScoredPositions == {1, 2}

\* the sections of a page with the given boxes, each with an identifier
ScoredSections(rects) ==
    [i \in 1..Len(rects) |-> [el |-> i, id |-> PositionalId(i - 1), rect |-> rects[i]]]

\* updateActiveSectionHash is about to run on a page laid out in some way
InitScore ==
    /\ invocation \in {[fn |-> "updateActiveSectionHash", rects |-> rects,
                        done |-> FALSE, active |-> None] :
                          rects \in [ScoredPositions -> SectionRects]}
    /\ sync = None
    /\ hostHasWatcher = TRUE
    /\ observer = FALSE
    /\ entries = {}
    /\ liveWatchers = 0
    /\ observedTargets = {}
    /\ queued = <<>>
    /\ batch = <<>>
    /\ running = NoCall
    /\ gone = {}
    /\ latest = [t \in Targets |-> None]
    /\ replaced = {}
    /\ everObserved = FALSE
    /\ lastOp = "none"
    /\ lastTarget = None
    /\ lastThrew = FALSE
    /\ lastHadEntry = FALSE
    /\ lastOpNested = FALSE
    /\ mutatedInBatch = FALSE
    /\ tree = None
    /\ unit = None
    /\ prefersReduced = FALSE

\* the scoring loop and the fallback of updateActiveSectionHash
\* (hash-scroll.ts:158-223)
ScoreSections ==
    /\ ~invocation.done
    /\ invocation' = [invocation EXCEPT
                          !.done = TRUE,
                          !.active = ActiveSection(ScoredSections(invocation.rects))]
    /\ UNCHANGED <<regVars, vidVars, hashVars, pageVars>>

NextScore == ScoreSections

(***************************************************************************)
(* bunnyImage and bunnyVideoFile of src/lib/bunny-cdn.ts.  An optional     *)
(* number or string is a record [given, value]; a base address and a path  *)
(* are sequences of characters.                                            *)
(***************************************************************************)
\* largest width and height the model passes
MaxDim == 2
\* quality must be between 1 and 100 (bunny-cdn.ts:75)
QualityMin == 1
QualityMax == 100

Undefined == [given |-> FALSE, value |-> 0]

Given(v) == [given |-> TRUE, value |-> v]

Dims == {Undefined} \cup {Given(v) : v \in (0 - 1)..MaxDim}

Qualities ==
    {Undefined} \cup {Given(v) : v \in {QualityMin - 2, QualityMin - 1, QualityMin,
                                        QualityMax, QualityMax + 1}}

\* aspectRatio?: string, left out, empty, or a ratio
AspectRatios ==
    {[given |-> FALSE, value |-> ""], [given |-> TRUE, value |-> ""],
     [given |-> TRUE, value |-> "16:9"]}

\* import.meta.env values of the PUBLIC_BUNNY_CDN_URL variables: not set, a
\* base address, a base address with a trailing slash
EnvUrls == {<<>>, <<"h">>, <<"h", "/">>}

Paths == {<<"/", "p">>, <<"p">>, <<"/", "/", "p">>}

\* url.replace(/\/$/, '')
RemoveTrailingSlash(url) ==
    IF url # <<>> /\ url[Len(url)] = "/" THEN SubSeq(url, 1, Len(url) - 1) ELSE url

\* getCdnUrl (bunny-cdn.ts:15-36); env.zone is the variable named after the
\* requested pull zone, env.default is PUBLIC_BUNNY_CDN_URL
getCdnUrlWithoutFallback(env, pullZone) ==
    IF pullZone
    THEN (IF env.zone # <<>> THEN RemoveTrailingSlash(env.zone) ELSE <<>>)
    ELSE IF env.default = <<>> THEN <<>>
    ELSE RemoveTrailingSlash(env.default)

getCdnUrl(env, pullZone) ==
    IF pullZone /\ env.zone # <<>> THEN RemoveTrailingSlash(env.zone)
    ELSE IF env.default = <<>> THEN <<>>
    ELSE RemoveTrailingSlash(env.default)

\* if (width) params.set('width', width.toString()), and so on
\* (bunny-cdn.ts:79-83); URLSearchParams keeps the order of insertion
Param(name, opt) ==
    IF opt.given /\ opt.value # 0 THEN <<[name |-> name, value |-> ToString(opt.value)]>>
    ELSE <<>>

\* if (aspectRatio) params.set('aspect_ratio', aspectRatio) (bunny-cdn.ts:83)
StringParam(name, opt) ==
    IF opt.given /\ opt.value # "" THEN <<[name |-> name, value |-> opt.value]>>
    ELSE <<>>

ParamsOfWithoutHeight(options) ==
    Param("width", options.width) \o Param("quality", options.quality)
        \o StringParam("aspect_ratio", options.aspectRatio)

ParamsOf(options) ==
    Param("width", options.width) \o Param("height", options.height)
        \o Param("quality", options.quality)
        \o StringParam("aspect_ratio", options.aspectRatio)

\* what a call leaves: a returned string or a thrown Error
Returned(base, path, params) ==
    [kind |-> "returned", message |-> "", base |-> base, path |-> path, params |-> params]

Thrown(message) ==
    [kind |-> "thrown", message |-> message, base |-> <<>>, path |-> <<>>, params |-> <<>>]

Pending ==
    [kind |-> "pending", message |-> "", base |-> <<>>, path |-> <<>>, params |-> <<>>]

\* path.startsWith('/') ? path : `/${path}` (bunny-cdn.ts:86, 201)
CleanPath(path) ==
    IF path # <<>> /\ path[1] = "/" THEN path ELSE <<"/">> \o path

\* bunnyImage (bunny-cdn.ts:57-89)
bunnyImage(env, path, options) ==
    LET cdnUrl == getCdnUrl(env, options.pullZone)
    IN  IF cdnUrl = <<>> THEN Returned(<<>>, path, <<>>)
        ELSE IF options.width.given /\ options.width.value <= 0
             THEN Thrown("Width must be a positive number")
        ELSE IF options.height.given /\ options.height.value <= 0
             THEN Thrown("Height must be a positive number")
        ELSE IF /\ options.quality.given
                /\ (\/ options.quality.value < QualityMin
                    \/ options.quality.value > QualityMax)
             THEN Thrown("Quality must be between 1 and 100")
        ELSE Returned(cdnUrl, CleanPath(path), ParamsOf(options))

\* bunnyVideoFile (bunny-cdn.ts:194-203); pullZone is false for the empty
\* zone name and true for any other, the default 'storage' included
bunnyVideoFile(env, path, pullZone) ==
    LET cdnUrl == getCdnUrl(env, pullZone)
    IN  IF cdnUrl = <<>> THEN Returned(<<>>, path, <<>>)
        ELSE Returned(cdnUrl, CleanPath(path), <<>>)

ImageOptions ==
    [width : Dims, height : Dims, quality : Qualities,
     aspectRatio : AspectRatios, pullZone : BOOLEAN]

\* bunnyVideoFile takes no options but the zone
NoOptions(pullZone) ==
    [width |-> Undefined, height |-> Undefined, quality |-> Undefined,
     aspectRatio |-> [given |-> FALSE, value |-> ""], pullZone |-> pullZone]

Envs == [zone : EnvUrls, default : EnvUrls]

\* a caller is about to call bunnyImage or bunnyVideoFile
InitImage ==
    /\ invocation \in
         {[fn |-> "bunnyImage", env |-> env, path |-> path, options |-> options,
           done |-> FALSE, result |-> Pending, again |-> Pending] :
              env \in Envs, path \in Paths, options \in ImageOptions}
         \cup
         {[fn |-> "bunnyVideoFile", env |-> env, path |-> path,
           options |-> NoOptions(pullZone),
           done |-> FALSE, result |-> Pending, again |-> Pending] :
              env \in Envs, path \in Paths, pullZone \in BOOLEAN}
    /\ sync = None
    /\ hostHasWatcher = TRUE
    /\ observer = FALSE
    /\ entries = {}
    /\ liveWatchers = 0
    /\ observedTargets = {}
    /\ queued = <<>>
    /\ batch = <<>>
    /\ running = NoCall
    /\ gone = {}
    /\ latest = [t \in Targets |-> None]
    /\ replaced = {}
    /\ everObserved = FALSE
    /\ lastOp = "none"
    /\ lastTarget = None
    /\ lastThrew = FALSE
    /\ lastHadEntry = FALSE
    /\ lastOpNested = FALSE
    /\ mutatedInBatch = FALSE
    /\ tree = None
    /\ unit = None
    /\ prefersReduced = FALSE

\* the call is made
CallBunnyImage ==
    /\ invocation.fn = "bunnyImage"
    /\ ~invocation.done
    /\ invocation' = [invocation EXCEPT
                          !.done = TRUE,
                          !.result = bunnyImage(invocation.env, invocation.path,
                                                invocation.options)]
    /\ UNCHANGED <<regVars, vidVars, hashVars, pageVars>>

\* the same call is made once more, with the environment as it was
CallBunnyImageAgain ==
    /\ invocation.fn = "bunnyImage"
    /\ invocation.done
    /\ invocation.again = Pending
    /\ invocation' = [invocation EXCEPT
                          !.again = bunnyImage(invocation.env, invocation.path,
                                               invocation.options)]
    /\ UNCHANGED <<regVars, vidVars, hashVars, pageVars>>

CallBunnyVideoFile ==
    /\ invocation.fn = "bunnyVideoFile"
    /\ ~invocation.done
    /\ invocation' = [invocation EXCEPT
                          !.done = TRUE,
                          !.result = bunnyVideoFile(invocation.env, invocation.path,
                                                    invocation.options.pullZone)]
    /\ UNCHANGED <<regVars, vidVars, hashVars, pageVars>>

NextImage ==
    \/ CallBunnyImage
    \/ CallBunnyImageAgain
    \/ CallBunnyVideoFile

(***************************************************************************)
(*                                 A page                                  *)
(*                                                                         *)
(* Several LazyVideo and LazyImage components and the singleton registry   *)
(* they share.  A component's container element and the callback it passes *)
(* to observe are both named by the component's number.  A LazyVideo is    *)
(* the unit above; a LazyImage (LazyImage.tsx:24-84) is a record of its    *)
(* state, with the registry calls its last step made.                      *)
(***************************************************************************)
\* number of components on the page
NumUnits == 2
\* most component events in one behaviour of the page
MaxEvents == 4

PageUnits == 1..NumUnits

\* the props of the LazyVideo components of the page: priority
PageVideos == {NewUnit(p, TRUE, TRUE) : p \in BOOLEAN}

NewImage(priority, blurPlaceholder) ==
    [phase |-> "new", priority |-> priority, blurPlaceholder |-> blurPlaceholder,
     isLoaded |-> FALSE,
     shouldLoad |-> FALSE, reducedMotion |-> FALSE,
     pShouldLoad |-> FALSE, pReducedMotion |-> FALSE,
     observing |-> FALSE, calls |-> <<>>]

PageImages == {NewImage(p, b) : p \in BOOLEAN, b \in BOOLEAN}

\* the cleanup of the observation effect (LazyImage.tsx:79-83)
ImageCleanup(m) ==
    IF m.observing
    THEN [m EXCEPT !.observing = FALSE, !.calls = Append(@, "unobserve")]
    ELSE m

ImageEffectIgnoringShouldLoad(m) ==
    IF m.priority \/ m.reducedMotion
    THEN m
    ELSE [m EXCEPT !.observing = TRUE, !.calls = Append(@, "observe")]

\* the observation effect (LazyImage.tsx:63-77),
\* deps [priority, reducedMotion, shouldLoad]
ImageEffect(m) ==
    IF m.priority \/ m.reducedMotion \/ m.shouldLoad
    THEN m
    ELSE [m EXCEPT !.observing = TRUE, !.calls = Append(@, "observe")]

\* the motion effect (LazyImage.tsx:44-47), deps [shouldLoad]
ImageMotionEffect(m, reduced) == [m EXCEPT !.pReducedMotion = reduced]

\* React: commit, then the cleanups and bodies of the effects whose
\* dependencies changed, while an effect set state
RECURSIVE ImageFlush(_, _, _)
ImageFlush(m, reduced, n) ==
    IF (m.shouldLoad = m.pShouldLoad /\ m.reducedMotion = m.pReducedMotion) \/ n = 0
    THEN m
    ELSE LET c == [m EXCEPT !.shouldLoad = m.pShouldLoad,
                            !.reducedMotion = m.pReducedMotion]
             sl == c.shouldLoad # m.shouldLoad
             k == ImageCleanup(c)
             b1 == IF sl THEN ImageMotionEffect(k, reduced) ELSE k
         IN  ImageFlush(ImageEffect(b1), reduced, n - 1)

\* mount: useState(priority) for shouldLoad (LazyImage.tsx:39), first render,
\* then both effects
ImageMount(m, reduced) ==
    LET r == [m EXCEPT !.phase = "mounted", !.calls = <<>>,
                       !.isLoaded = m.priority /\ ~m.blurPlaceholder,
                       !.shouldLoad = m.priority, !.pShouldLoad = m.priority]
    IN  ImageFlush(ImageEffect(ImageMotionEffect(r, reduced)), reduced, MaxPasses)

ImageUnmount(m) ==
    [ImageCleanup([m EXCEPT !.calls = <<>>]) EXCEPT !.phase = "unmounted"]

\* handleChange of the media query (LazyImage.tsx:49-54)
ImageHandleChange(m, matches) ==
    LET m1 == [m EXCEPT !.calls = <<>>, !.pReducedMotion = matches]
        m2 == IF matches /\ ~m.shouldLoad THEN [m1 EXCEPT !.pShouldLoad = TRUE] ELSE m1
    IN  ImageFlush(m2, matches, MaxPasses)

\* the callback passed to lazyLoadManager.observe (LazyImage.tsx:72-77)
ImageCallback(m, isIntersecting) ==
    IF isIntersecting
    THEN ImageFlush([m EXCEPT !.pShouldLoad = TRUE, !.calls = <<"unobserve">>],
                    m.reducedMotion, MaxPasses)
    ELSE [m EXCEPT !.calls = <<>>]

\* what a handler wrote to the console
NoLog == "none"

\* onLoad of the full image (LazyImage.tsx:114)
ImageOnLoad(m) ==
    [after |-> [m EXCEPT !.isLoaded = TRUE, !.calls = <<>>], log |-> NoLog]

ImageOnErrorKeepingHidden(m) ==
    [after |-> [m EXCEPT !.calls = <<>>], log |-> "warn"]

\* onError of the full image (LazyImage.tsx:115-119): setIsLoaded(true) and
\* console.warn
ImageOnError(m) ==
    [after |-> [m EXCEPT !.isLoaded = TRUE, !.calls = <<>>], log |-> "warn"]

\* onError of the <video> element (LazyVideo.tsx:836-847): console.error and
\* nothing else
VideoOnError(u) == [after |-> Begin(u), log |-> "error"]

\* the parent renders the image with another priority
ImagePriorityChange(m) ==
    ImageEffect(ImageCleanup([m EXCEPT !.priority = ~@, !.calls = <<>>]))

\* the parent renders the video with another priority: the observation
\* effect, deps [priority, reducedMotion] (LazyVideo.tsx:656), runs again
VideoPriorityChange(u, rect, allowed) ==
    LET u0 == [Begin(u) EXCEPT !.priority = ~@]
    IN  Flush(IntersectionEffect(IntersectionCleanup(u0), rect), rect, allowed,
              MaxPasses)

\* the registry calls of a step of a LazyVideo: the cleanup of the
\* observation effect calls unobserve (LazyVideo.tsx:654) and its body calls
\* observe (LazyVideo.tsx:625); both run when a dependency changed
VideoCalls(before, after) ==
    LET depsChanged == \/ after.reducedMotion # before.reducedMotion
                       \/ after.priority # before.priority
    IN  (IF before.observing /\ (depsChanged \/ ~after.observing)
         THEN <<"unobserve">> ELSE <<>>)
        \o (IF after.observing /\ (depsChanged \/ ~before.observing)
            THEN <<"observe">> ELSE <<>>)

\* the registry after a component has made the calls for its element
RECURSIVE ApplyCalls(_, _, _)
ApplyCalls(r, el, calls) ==
    IF calls = <<>> THEN r
    ELSE ApplyCalls(IF Head(calls) = "observe" THEN observe(r, el, el)
                    ELSE unobserve(r, el),
                    el, Tail(calls))

IsVideo(i) == tree.kinds[i] = "video"

\* no dispatch is in progress: handlers run one at a time
PageIdle == batch = <<>>

\* what a step of the page leaves alone
PageFrame ==
    UNCHANGED <<hostHasWatcher, running, gone, latest, replaced, everObserved,
                lastOp, lastTarget, lastThrew, lastHadEntry, lastOpNested,
                mutatedInBatch, unit, hashVars, pureVars>>

SetRegistry(r) ==
    /\ observer' = r.observer
    /\ entries' = r.entries
    /\ liveWatchers' = r.liveWatchers
    /\ observedTargets' = r.observedTargets

\* the load event or failure the last step handled, with what its handler
\* wrote to the console
NoReport == [unit |-> None, event |-> "none", log |-> NoLog]

\* what the step before recorded about itself is forgotten: on the page only
\* the component's own state is followed
Settled(i, after) == IF IsVideo(i) THEN Begin(after) ELSE after

\* an event of component i: the component after it and its registry calls
PageStep(i, after, calls) ==
    /\ tree.events < MaxEvents
    /\ IsVideo(i) => InBounds(after)
    /\ tree' = [tree EXCEPT !.units[i] = Settled(i, after),
                            !.events = @ + 1,
                            !.report = NoReport]
    /\ SetRegistry(ApplyCalls(Reg, i, calls))
    /\ PageFrame

\* an event of LazyVideo i that is none of the registry's
VideoStep(i, after) ==
    /\ PageStep(i, after, VideoCalls(tree.units[i], after))
    /\ UNCHANGED <<prefersReduced, queued, batch>>

PageMount(i, rect, allowed) ==
    /\ PageIdle
    /\ tree.units[i].phase = "new"
    /\ LET u == tree.units[i]
           after == IF IsVideo(i)
                    THEN MountUnit(Begin(u), prefersReduced, rect, allowed)
                    ELSE ImageMount(u, prefersReduced)
       IN  PageStep(i, after,
                    IF IsVideo(i) THEN VideoCalls(u, after) ELSE after.calls)
    /\ UNCHANGED <<prefersReduced, queued, batch>>

PageUnmount(i) ==
    /\ PageIdle
    /\ tree.units[i].phase = "mounted"
    /\ LET u == tree.units[i]
           after == IF IsVideo(i) THEN UnmountUnit(Begin(u)) ELSE ImageUnmount(u)
       IN  PageStep(i, after,
                    IF IsVideo(i) THEN VideoCalls(u, after) ELSE after.calls)
    /\ UNCHANGED <<prefersReduced, queued, batch>>

PagePriorityChange(i, rect, allowed) ==
    /\ PageIdle
    /\ tree.units[i].phase = "mounted"
    /\ LET u == tree.units[i]
           after == IF IsVideo(i) THEN VideoPriorityChange(u, rect, allowed)
                    ELSE ImagePriorityChange(u)
       IN  PageStep(i, after,
                    IF IsVideo(i) THEN VideoCalls(u, after) ELSE after.calls)
    /\ UNCHANGED <<prefersReduced, queued, batch>>

\* component i after the media query's change event
AfterMotionChange(i, matches, rect, allowed) ==
    LET u == tree.units[i]
    IN  IF u.phase # "mounted" THEN u
        ELSE IF IsVideo(i) THEN MotionChangeUnit(u, matches, rect, allowed)
        ELSE ImageHandleChange(u, matches)

\* the registry after the components up to number n have handled the event
RECURSIVE RegistryAfterMotionChange(_, _)
RegistryAfterMotionChange(after, n) ==
    IF n = 0 THEN Reg
    ELSE ApplyCalls(RegistryAfterMotionChange(after, n - 1), n,
                    IF tree.units[n].phase # "mounted" THEN <<>>
                    ELSE IF IsVideo(n) THEN VideoCalls(tree.units[n], after[n])
                    ELSE after[n].calls)

\* the user's motion preference changes: every mounted component's listener
\* runs
PageMotionPreferenceChange(rect, allowed) ==
    /\ PageIdle
    /\ tree.events < MaxEvents
    /\ prefersReduced' = ~prefersReduced
    /\ LET after == [i \in PageUnits |->
                        AfterMotionChange(i, ~prefersReduced, rect, allowed)]
       IN  /\ \A i \in PageUnits : IsVideo(i) => InBounds(after[i])
           /\ tree' = [tree EXCEPT !.units = [i \in PageUnits |-> Settled(i, after[i])],
                                   !.events = @ + 1,
                                   !.report = NoReport]
           /\ SetRegistry(RegistryAfterMotionChange(after, NumUnits))
    /\ UNCHANGED <<queued, batch>>
    /\ PageFrame

\* the batches the host's watcher may deliver: entries for elements it
\* observes, in any order
PageBatches ==
    LET Entries == {[target |-> t, isIntersecting |-> v] :
                       t \in observedTargets, v \in BOOLEAN}
    IN  UNION {[1..n -> Entries] : n \in 1..MaxBatch}

\* the host calls the watcher's callback with the entries it has queued
PageDispatchBegin(delivered) ==
    /\ PageIdle
    /\ liveWatchers > 0
    /\ tree.events < MaxEvents
    /\ batch' = delivered
    /\ tree' = [tree EXCEPT !.report = NoReport]
    /\ UNCHANGED <<observer, entries, liveWatchers, observedTargets, queued,
                   prefersReduced>>
    /\ PageFrame

\* one iteration of entries.forEach (intersection-observer.ts:23-28): the
\* callback stored for the entry's target, if any, runs to its end
PageDispatchStep(allowed) ==
    /\ batch # <<>>
    /\ batch' = Tail(batch)
    /\ LET entry == Head(batch)
           stored == MapGet(entries, entry.target)
       IN  IF stored = None
           THEN /\ tree' = [tree EXCEPT !.report = NoReport]
                /\ UNCHANGED <<observer, entries, liveWatchers, observedTargets>>
                /\ PageFrame
           ELSE LET u == tree.units[stored]
                    after == IF IsVideo(stored)
                             THEN NotifyUnit(u, entry.isIntersecting, allowed)
                             ELSE ImageCallback(u, entry.isIntersecting)
                IN  /\ tree.events < MaxEvents
                    /\ IsVideo(stored) => InBounds(after)
                    /\ tree' = [tree EXCEPT
                                   !.units[stored] = Settled(stored, after),
                                   !.events = @ + 1,
                                   !.report = NoReport]
                    /\ SetRegistry(ApplyCalls(Reg, stored,
                                              IF IsVideo(stored)
                                              THEN VideoCalls(u, after)
                                              ELSE after.calls))
                    /\ PageFrame
    /\ UNCHANGED <<prefersReduced, queued>>

PageAnimationFrame(i, rect, allowed) ==
    /\ PageIdle /\ IsVideo(i)
    /\ tree.units[i].phase = "mounted"
    /\ tree.units[i].rafPending
    /\ VideoStep(i, AnimationFrameUnit(tree.units[i], rect, allowed))

PageProbeTimeout(i, rect, allowed) ==
    /\ PageIdle /\ IsVideo(i)
    /\ tree.units[i].phase = "mounted"
    /\ tree.units[i].probeTimeouts > 0
    /\ VideoStep(i, ProbeTimeoutUnit(tree.units[i], rect, allowed))

PageSafeguardTimeout(i, allowed) ==
    /\ PageIdle /\ IsVideo(i)
    /\ tree.units[i].phase = "mounted"
    /\ tree.units[i].safeguardTimeout
    /\ VideoStep(i, SafeguardTimeoutUnit(tree.units[i], allowed))

PageMediaProgress(i, rs, allowed) ==
    /\ PageIdle /\ IsVideo(i)
    /\ tree.units[i].video
    /\ rs > tree.units[i].readyState
    /\ VideoStep(i, MediaProgressUnit(tree.units[i], rs, allowed))

PagePlaybackStarts(i) ==
    /\ PageIdle /\ IsVideo(i)
    /\ CanPlaybackStart(tree.units[i])
    /\ VideoStep(i, PlaybackStartsUnit(tree.units[i]))

PageTimeAdvances(i) ==
    /\ PageIdle /\ IsVideo(i)
    /\ CanTimeAdvance(tree.units[i])
    /\ VideoStep(i, TimeAdvancesUnit(tree.units[i]))

PageRetryTimeout(i, allowed) ==
    /\ PageIdle /\ IsVideo(i)
    /\ tree.units[i].video
    /\ tree.units[i].retryTimers > 0
    /\ VideoStep(i, RetryTimeoutUnit(tree.units[i], allowed))

PageStaleRetryTimeout(i, plays, more) ==
    /\ PageIdle /\ IsVideo(i)
    /\ IF plays THEN tree.units[i].stalePlayTimers
       ELSE tree.units[i].staleRetryTimers
    /\ VideoStep(i, StaleRetryTimeoutUnit(tree.units[i], plays, more))

PageVolumeChange(i) ==
    /\ PageIdle /\ IsVideo(i)
    /\ tree.units[i].video
    /\ tree.units[i].volumeChangePending
    /\ VideoStep(i, VolumeChangeUnit(tree.units[i]))

PageUserUnmutes(i) ==
    /\ PageIdle /\ IsVideo(i)
    /\ CanUnmute(tree.units[i])
    /\ VideoStep(i, handleUnmute(Begin(tree.units[i])))

\* the host reports the result of loading component i's resource to the
\* handler the component rendered on the element: the component after it,
\* and the report of the event
LoadEventStep(i, event, handled) ==
    /\ PageIdle
    /\ tree.events < MaxEvents
    /\ tree' = [tree EXCEPT !.units[i] = handled.after,
                            !.events = @ + 1,
                            !.report = [unit |-> i, event |-> event,
                                        log |-> handled.log]]
    /\ SetRegistry(ApplyCalls(Reg, i,
                              IF IsVideo(i)
                              THEN VideoCalls(tree.units[i], handled.after)
                              ELSE handled.after.calls))
    /\ UNCHANGED <<prefersReduced, queued, batch>>
    /\ PageFrame

\* the full <img> is rendered while shouldLoad (LazyImage.tsx:108-123)
PageImageLoads(i) ==
    /\ ~IsVideo(i)
    /\ tree.units[i].phase = "mounted" /\ tree.units[i].shouldLoad
    /\ LoadEventStep(i, "load", ImageOnLoad(tree.units[i]))

PageImageError(i) ==
    /\ ~IsVideo(i)
    /\ tree.units[i].phase = "mounted" /\ tree.units[i].shouldLoad
    /\ LoadEventStep(i, "error", ImageOnError(tree.units[i]))

\* the <video> is rendered while shouldLoad (LazyVideo.tsx:818-849)
PageVideoError(i) ==
    /\ IsVideo(i)
    /\ tree.units[i].phase = "mounted" /\ tree.units[i].video
    /\ LoadEventStep(i, "error", VideoOnError(tree.units[i]))

InitPage ==
    /\ tree \in {[kinds |-> kinds, units |-> units, events |-> 0,
                   report |-> NoReport] :
                    kinds \in [PageUnits -> {"video", "image"}],
                    units \in [PageUnits -> PageVideos \cup PageImages]}
    /\ \A i \in PageUnits :
          tree.units[i] \in IF tree.kinds[i] = "video" THEN PageVideos ELSE PageImages
    /\ prefersReduced \in BOOLEAN
    /\ unit = None
    /\ hostHasWatcher = TRUE
    /\ observer = FALSE
    /\ entries = {}
    /\ liveWatchers = 0
    /\ observedTargets = {}
    /\ queued = <<>>
    /\ batch = <<>>
    /\ running = NoCall
    /\ gone = {}
    /\ latest = [t \in Targets |-> None]
    /\ replaced = {}
    /\ everObserved = FALSE
    /\ lastOp = "none"
    /\ lastTarget = None
    /\ lastThrew = FALSE
    /\ lastHadEntry = FALSE
    /\ lastOpNested = FALSE
    /\ mutatedInBatch = FALSE
    /\ sync = None
    /\ invocation = None

NextPage ==
    \/ \E i \in PageUnits, rect \in Rects, allowed \in BOOLEAN : PageMount(i, rect, allowed)
    \/ \E i \in PageUnits : PageUnmount(i)
    \/ \E i \in PageUnits, rect \in Rects, allowed \in BOOLEAN :
          PagePriorityChange(i, rect, allowed)
    \/ \E rect \in Rects, allowed \in BOOLEAN : PageMotionPreferenceChange(rect, allowed)
    \/ \E delivered \in PageBatches : PageDispatchBegin(delivered)
    \/ \E allowed \in BOOLEAN : PageDispatchStep(allowed)
    \/ \E i \in PageUnits, rect \in Rects, allowed \in BOOLEAN :
          PageAnimationFrame(i, rect, allowed)
    \/ \E i \in PageUnits, rect \in Rects, allowed \in BOOLEAN :
          PageProbeTimeout(i, rect, allowed)
    \/ \E i \in PageUnits, allowed \in BOOLEAN : PageSafeguardTimeout(i, allowed)
    \/ \E i \in PageUnits, rs \in HAVE_CURRENT_DATA..HAVE_ENOUGH_DATA,
          allowed \in BOOLEAN : PageMediaProgress(i, rs, allowed)
    \/ \E i \in PageUnits : PagePlaybackStarts(i)
    \/ \E i \in PageUnits : PageTimeAdvances(i)
    \/ \E i \in PageUnits, allowed \in BOOLEAN : PageRetryTimeout(i, allowed)
    \/ \E i \in PageUnits, plays \in BOOLEAN, more \in BOOLEAN :
          PageStaleRetryTimeout(i, plays, more)
    \/ \E i \in PageUnits : PageVolumeChange(i)
    \/ \E i \in PageUnits : PageUserUnmutes(i)
    \/ \E i \in PageUnits : PageImageLoads(i)
    \/ \E i \in PageUnits : PageImageError(i)
    \/ \E i \in PageUnits : PageVideoError(i)

(***************************************************************************)
(* The specifications.  The registry is checked with arbitrary clients and *)
(* no unit; the unit is checked with the registry's notifications as its   *)
(* input.                                                                  *)
(***************************************************************************)
SpecRegistry ==
    /\ InitRegistry
    /\ [][NextRegistry]_vars

SpecVideo ==
    /\ InitVideo
    /\ [][NextVideo]_vars

SpecHash ==
    /\ InitHash
    /\ [][NextHash]_vars

\* the periodic check would write the URL if it ran now
CheckDue ==
    /\ sync.phase = "running"
    /\ updateActiveSectionHash(sync, FALSE).hash # sync.hash

\* the periodic check runs every 500 ms (hash-scroll.ts:324-328): it does not
\* stay due for ever without running.  CheckDue implies that a Track step is
\* enabled, so this follows from WF_vars(\E throws \in BOOLEAN : Track(throws))
PeriodicCheckRuns ==
    \/ []<>(~CheckDue)
    \/ []<><<\E throws \in BOOLEAN : Track(throws)>>_vars

\* the timeout of scrollToTarget fires once set (hash-scroll.ts:102-106); a
\* pending one is what enables InitialGuardTimeout, so this is
\* WF_vars(\E throws \in BOOLEAN : InitialGuardTimeout(throws))
InitialGuardFires ==
    \/ []<>(sync.phase = "running" => sync.guards.initial = 0)
    \/ []<><<\E throws \in BOOLEAN : InitialGuardTimeout(throws)>>_vars

\* timers fire: the periodic check, and each timeout that ends a guard period
\* (hash-scroll.ts:102-106, 347-349)
SpecHashLive ==
    /\ InitHashLive
    /\ [][NextHash]_vars
    /\ PeriodicCheckRuns
    /\ InitialGuardFires
    /\ WF_vars(PopGuardTimeout)

SpecScore ==
    /\ InitScore
    /\ [][NextScore]_vars

SpecImage ==
    /\ InitImage
    /\ [][NextImage]_vars

SpecPage ==
    /\ InitPage
    /\ [][NextPage]_vars

(***************************************************************************)
(* Properties of the registry.                                             *)
(***************************************************************************)

\* C1: a callback is never invoked for a target whose unobserve() has been
\* called since it was last observed, also when the unobserve() came from
\* inside a callback of the batch that is still being dispatched.
C1_NoCallbackAfterUnobserve ==
    running # NoCall => running.target \notin gone

\* a dispatch is in progress, a callback of it has just called unobserve(),
\* and the next entry of the batch is for a target that is unobserved
C1_Witness ==
    /\ batch # <<>>
    /\ running = NoCall
    /\ lastOp = "unobserve"
    /\ lastOpNested
    /\ Head(batch) \in gone

\* C2: no watcher exists before the first observe(), at most one watcher is
\* live at any time, a watcher is created only by observe() and torn down
\* only by disconnect() (unobserve() never tears it down).
C2_SingleLazyWatcher ==
    /\ [](liveWatchers <= 1 /\ (~everObserved => liveWatchers = 0))
    /\ [][/\ liveWatchers' > liveWatchers => lastOp' = "observe"
          /\ liveWatchers' < liveWatchers => lastOp' = "disconnect"]_regVars

\* unobserve() has removed the last registered target and the watcher lives
C2_Witness ==
    /\ lastOp = "unobserve"
    /\ gone # {}
    /\ entries = {}
    /\ observer
    /\ liveWatchers = 1

\* C3: the Map holds at most one registration per target, and a callback
\* that is invoked is the one most recently registered for its target.
C3_LatestCallbackOnly ==
    /\ \A p \in entries, q \in entries : p[1] = q[1] => p = q
    /\ running # NoCall => running.cb = latest[running.target]

\* a callback is invoked for a target whose earlier callback was replaced
C3_Witness ==
    /\ running # NoCall
    /\ running.target \in replaced

\* C17: on a host without the watch mechanism a call of observe does not
\* throw (it is to fail soft and treat the target as always visible)
C17_ObserveFailsSoft ==
    (~hostHasWatcher /\ lastOp = "observe") => ~lastThrew

\* C18: unobserve of a target the Map does not hold throws nothing, leaves
\* the Map and so every other target's registration and callback as they
\* were, and neither creates nor tears down the watcher.
C18_UnobserveUnregisteredNoOp ==
    [][(lastOp' = "unobserve" /\ ~MapHas(entries, lastTarget'))
          => /\ ~lastThrew'
             /\ entries' = entries
             /\ observer' = observer
             /\ liveWatchers' = liveWatchers
             /\ observedTargets' = observedTargets]_vars

\* unobserve was called for a target the Map did not hold, while the watcher
\* was live and another target was registered
C18_Witness ==
    /\ lastOp = "unobserve"
    /\ ~lastHadEntry
    /\ observer
    /\ liveWatchers = 1
    /\ \E p \in entries : p[1] # lastTarget

\* C19: after disconnect the registry holds no registration and no watcher,
\* and a callback is invoked only for a target that has been registered with
\* observe since the last disconnect.
C19_NothingAfterDisconnect ==
    /\ lastOp = "disconnect" =>
          entries = {} /\ ~observer /\ liveWatchers = 0 /\ observedTargets = {}
    /\ running # NoCall => latest[running.target] # None

\* a callback has called disconnect while the batch being dispatched still
\* holds an entry, for a target that was registered when it was queued
C19_Witness ==
    /\ lastOp = "disconnect"
    /\ lastOpNested
    /\ batch # <<>>
    /\ entries = {}
    /\ ~observer

\* C35: the targets the registry's watcher observes are the keys of the map
\* of registrations, and while the map holds a registration the registry has
\* a watcher
C35_WatcherObservesTheKeys ==
    /\ observedTargets = MapKeys(entries)
    /\ entries # {} => observer /\ liveWatchers > 0

\* one of two registered targets has been unobserved: the other is still
\* both observed and registered
C35_Witness ==
    /\ lastOp = "unobserve"
    /\ lastHadEntry
    /\ observer
    /\ Cardinality(MapKeys(entries)) = 1
    /\ observedTargets = MapKeys(entries)

\* C23: a dispatch is not disturbed by callbacks that call the registry:
\* each entry of the batch is taken in turn; if its target is registered at
\* that moment (observed and not unobserved or disconnected since, by whom
\* and whenever) the callback registered for it is invoked, otherwise the
\* entry is skipped; an invoked callback ends the entry's turn, so that no
\* entry is taken twice; and no call made by a callback throws.
C23_DispatchToleratesMutation ==
    [][/\ (batch # <<>> /\ running = NoCall) =>
            IF latest[Head(batch)] # None
            THEN /\ running' = [target |-> Head(batch), cb |-> latest[Head(batch)]]
                 /\ batch' = batch
            ELSE /\ running' = NoCall
                 /\ batch' = Tail(batch)
       /\ running # NoCall =>
            /\ running' = NoCall
            /\ batch' = Tail(batch)
            /\ ~lastThrew']_vars

\* the callback of the second entry of a batch is invoked after the callback
\* of the first entry has unregistered its own target
C23_Witness ==
    /\ running # NoCall
    /\ mutatedInBatch
    /\ Len(batch) = 1
    /\ gone # {}
    /\ running.target \notin gone

(***************************************************************************)
(* Properties of the media lifecycle controller.                           *)
(***************************************************************************)

\* the unit is mounted and, since the mount, the registry has not reported
\* its target as visible and the motion preference has not changed
BeforeFirstVisible == Mounted /\ unit.quiet

C5_LoadedOnMount ==
    (BeforeFirstVisible /\ (unit.priority \/ prefersReduced))
        => unit.shouldLoad /\ unit.video

\* a priority unit whose only notification so far said "not visible"
C5_Witness ==
    /\ BeforeFirstVisible
    /\ unit.priority /\ ~prefersReduced
    /\ unit.lastNotified = "leave"
    /\ unit.shouldLoad /\ unit.video

\* C6: in no step is the saved playback position captured after a pause
\* has been issued in that step (capture strictly precedes pause when the
\* unit goes from visible to not visible).
C6_CaptureBeforePause ==
    ~unit.lateCapture

\* C7: the controller seeks to a positive saved position only when the
\* element's readyState supports seeking, and whenever restoreAndPlay issues
\* a play request while a positive position is saved, the element is at the
\* saved position.
C7_SeekWhenReady ==
    /\ unit.seekReadyState # -1 => unit.seekReadyState >= HAVE_CURRENT_DATA
    /\ (unit.video /\ unit.playsIssued > 0 /\ ~unit.retryFired /\ unit.savedTimeRef > 0)
           => unit.currentTime = unit.savedTimeRef

\* the unit has re-entered view with a positive saved position, has sought
\* to it on a ready element and has issued the play request
C7_Witness ==
    /\ unit.seekReadyState >= HAVE_CURRENT_DATA
    /\ unit.savedTimeRef > 0
    /\ unit.currentTime = unit.savedTimeRef
    /\ unit.playsIssued > 0
    /\ unit.lastNotified = "enter"

\* C8: at most one play request of a unit is pending at any time.
C8_SinglePlayInFlight ==
    unit.pendFirst + unit.pendRetry <= 1

\* what a step that runs the 200 ms retry timeout does, and what any other
\* step on the same element does to the retry timers
C9_Step ==
    /\ unit'.retryFired =>
          /\ unit'.playsIssued = IF unit.muted /\ unit.readyState >= HAVE_CURRENT_DATA
                                 THEN 1 ELSE 0
          /\ unit'.muted = unit.muted
          /\ unit'.retryTimers = unit.retryTimers - 1
          /\ unit'.phase = unit.phase /\ unit'.shouldLoad = unit.shouldLoad
    /\ (unit.video /\ unit'.video /\ ~unit'.retryFired) =>
          unit'.retryTimers = unit.retryTimers + unit'.firstRejected

\* C9, as the code has it: every rejection of a play request issued by
\* restoreAndPlay schedules exactly one retry timeout; when it fires, the
\* retry issues one play request if the element is muted and its readyState
\* is at least HAVE_CURRENT_DATA and none otherwise, it leaves the mute
\* state as it is, and a rejected retry schedules nothing and changes no
\* state of the unit.
C9_RetryOnceIfMuted ==
    [][C9_Step]_vars

\* the retry of a rejected play request has itself just been rejected
C9_Witness ==
    /\ unit.retryFired
    /\ unit.playsIssued = 1
    /\ unit.pendRetry = 0 /\ unit.pendFirst = 0
    /\ unit.retryTimers = 0
    /\ unit.paused

\* C9 as stated: the retry of a rejected play request is issued with the
\* unit forced to muted.
C9_RetryForcedMuted ==
    unit.retryFired => unit.playsIssued = 1 /\ unit.muted

\* C10, as the code has it: once the motion preference has changed to
\* reduced while a unit is mounted, the unit is loaded, and it stays loaded
\* in every later state in which the preference is reduced and the unit is
\* mounted, whatever notifications arrive.
C10_LoadedWhileReduced ==
    (Mounted /\ unit.becameReduced /\ prefersReduced) => unit.shouldLoad /\ unit.video

\* a non-priority unit that the registry reports as not visible after the
\* preference changed to reduced
C10_Witness ==
    /\ Mounted /\ unit.becameReduced /\ prefersReduced
    /\ ~unit.priority
    /\ unit.lastNotified = "leave"
    /\ unit.shouldLoad /\ unit.video

\* C10 as stated: once the motion preference has changed to reduced while
\* the unit is mounted, shouldLoad is true in every later state until
\* unmount, whatever later preference changes arrive.
C10_LoadedForGood ==
    (Mounted /\ unit.becameReduced) => unit.shouldLoad

\* C11: a priority unit is loaded (shouldLoad true, resource attached) in
\* every state in which it is mounted, whatever notifications and changes
\* of the motion preference have arrived.
C11_PriorityStaysLoaded ==
    (Mounted /\ unit.priority) => unit.shouldLoad /\ unit.video

\* a priority unit that was visible, has seen the preference turn reduced
\* and back, and is now reported as not visible
C11_Witness ==
    /\ Mounted /\ unit.priority
    /\ ~unit.quiet /\ unit.becameReduced /\ ~prefersReduced
    /\ unit.lastNotified = "leave"
    /\ unit.shouldLoad /\ unit.video

\* what is still scheduled for the unit
PendingTimers ==
    \/ unit.rafPending \/ unit.probeTimeouts > 0 \/ unit.safeguardTimeout
    \/ unit.retryTimers > 0 \/ unit.staleRetryTimers \/ unit.stalePlayTimers

\* C12: after the unmount no timer or retry callback of the unit is
\* pending, so that no deferred continuation runs or issues a play request.
C12_UnmountCancelsAll ==
    unit.phase = "unmounted" => ~PendingTimers

(***************************************************************************)
(* The hash synchronizer.                                                  *)
(***************************************************************************)
\* C13: while a programmatic scroll is in flight (the timeout that ends its
\* guard period is pending), visibility tracking writes no fragment to the URL
C13_NoUpdateWhileScrollInFlight ==
    sync.wrote # "none" => GuardsPending(sync) = 0

\* C14: visibility tracking never adds a navigation history entry: the page's
\* history keeps the length it had when the page was opened
C14_NeverAddsHistoryEntry ==
    sync.historyLen = 1

\* C15: an element that has an identifier, explicit or generated, keeps it in
\* every step, whatever runs and however the page's sections change
C15_IdAssignedOnce ==
    [][\A el \in Elements :
          sync.sectionId[el] # <<>> => sync'.sectionId[el] = sync.sectionId[el]]_vars

\* tracking ran, past the guard and so through ensureSectionIds, on a page
\* where a section with a positional identifier sits at another position
\* than the one its identifier was generated from
C15_Witness ==
    /\ sync.wrote # "none"
    /\ \E el \in Elements, index \in 0..(NumElements - 1) :
          /\ PositionOf(sync.page, el) > 0
          /\ sync.sectionId[el] = PositionalId(index)
          /\ PositionOf(sync.page, el) - 1 # index

\* some section of the page has the identifier
NamesSection(y, id) ==
    id # <<>> /\ \E i \in 1..Len(y.page) : y.sectionId[y.page[i]] = id

\* the step was the browser's move to the fragment and nothing else: no
\* scroll, no guard, no timeout, no write to the URL, no identifier assigned
OnlyTheBrowserMoved(hash) ==
    /\ sync'.hash = hash
    /\ sync'.wrote = "none"
    /\ sync'.historyLen = sync.historyLen
    /\ sync'.isUpdatingHash = sync.isUpdatingHash
    /\ sync'.guards = sync.guards
    /\ sync'.layout = sync.layout
    /\ sync'.sectionId = sync.sectionId

\* C32 as stated: a history pop event whose fragment matches no section
\* does nothing: no scroll, no guard flag, the URL is left as the browser
\* set it
C32_NothingWithoutSection ==
    [][\A hash \in Fragments :
          (PopState(hash) /\ ~NamesSection(sync, hash)) => OnlyTheBrowserMoved(hash)]_vars

\* C32: a history pop event whose fragment is the id of no element of the
\* document does nothing: no scroll, no guard flag, the URL is left as the
\* browser set it
C32_NothingWithoutElement ==
    [][\A hash \in Fragments :
          (PopState(hash) /\ getElementById([sync EXCEPT !.hash = hash], hash) = None)
              => OnlyTheBrowserMoved(hash)]_vars

\* the synchronizer runs on a page none of whose elements has or can get the
\* identifier a-a, the page was not opened with that fragment, and the
\* browser has moved to it: a history pop event that named no element; no
\* guard is set
C32_Witness ==
    /\ sync.phase = "running"
    /\ sync.hash = <<"a", "-", "a">>
    /\ sync.initialHash # sync.hash
    /\ \A el \in Elements :
          /\ sync.sectionId[el] # sync.hash
          /\ Slug(sync.heading[el]) # sync.hash
    /\ sync.wrote = "none"
    /\ ~sync.isUpdatingHash
    /\ GuardsPending(sync) = 0

\* the section the scoring loop picks on the page as it is
Winner(y) == ActiveSection(SectionsOf(ensureSectionIds(y)))

\* the fragment of the URL is the identifier of the winning section
InSync ==
    (sync.phase = "running" /\ Winner(sync) # None) =>
        sync.hash = ensureSectionIds(sync).sectionId[Winner(sync)]

\* a step in which the sections and their layout stay as they are, no
\* programmatic scroll starts and the browser does not navigate
Quiet ==
    /\ sync'.page = sync.page
    /\ sync'.layout = sync.layout
    /\ GuardsPending(sync') <= GuardsPending(sync)
    /\ sync'.hash # sync.hash => sync'.wrote # "none"

\* C33: if from some point on the sections and their layout stay as they
\* are, no programmatic scroll starts and the browser does not navigate,
\* then from some point on the fragment is the winning section's identifier
C33_EventuallyInSync ==
    <>[][Quiet]_vars => <>[]InSync

\* tracking has replaced the fragment the page was opened with by the
\* identifier of the winning section, with no guard period pending
C33_Witness ==
    /\ sync.phase = "running"
    /\ sync.wrote = "replace"
    /\ Winner(sync) # None
    /\ sync.hash = sync.sectionId[Winner(sync)]
    /\ sync.initialHash # <<>> /\ sync.hash # sync.initialHash
    /\ GuardsPending(sync) = 0

\* a checkpoint found the target and scrolled to it: only scrollToTarget
\* starts a timeout of its kind
CheckpointScrolls == sync'.guards.initial = sync.guards.initial + 1

\* C34: once a checkpoint has found the target and scrolled, no later
\* checkpoint scrolls again; in particular a checkpoint that scrolls does so
\* when no earlier checkpoint's scroll is still awaiting its timeout
C34_NoSecondScroll ==
    [][CheckpointScrolls => sync.guards.initial = 0]_vars

\* C38: the guard flag is always cleared again: while it is set a timeout
\* that clears it is pending, and whenever it is set it is later not set
C38_GuardAlwaysCleared ==
    /\ [](sync.isUpdatingHash => GuardsPending(sync) > 0)
    /\ (sync.isUpdatingHash ~> ~sync.isUpdatingHash)

\* the browser went back to the fragment of an element of the page, the
\* handler scrolled to it under the guard flag, and the flag is cleared again
\* with no timeout left
C38_Witness ==
    /\ sync.phase = "running"
    /\ sync.hash \in OtherIds
    /\ sync.initialHash \notin OtherIds
    /\ ~sync.isUpdatingHash
    /\ GuardsPending(sync) = 0

\* C39: once identifiers are assigned, no two sections of the page carry
\* the same identifier
C39_DistinctIds ==
    sync.phase = "running" =>
        \A i \in 1..Len(sync.page), j \in 1..Len(sync.page) :
            (i # j /\ sync.sectionId[sync.page[i]] # <<>>)
                => sync.sectionId[sync.page[i]] # sync.sectionId[sync.page[j]]

\* the page was opened with the fragment of one of its sections and none of
\* the load checkpoints has run yet, so the initial scroll is still to come
InitialScrollAhead ==
    /\ sync.phase = "running"
    /\ sync.checkpoints = 2
    /\ sync.hash = sync.initialHash
    /\ getElementById(sync, sync.initialHash) \in Elements

\* C40: before the initial scroll to the section the page's fragment names,
\* tracking does not replace the fragment by another section's identifier
C40_FragmentKeptUntilInitialScroll ==
    [][InitialScrollAhead =>
          (sync'.wrote = "none" \/ sync'.hash = sync.initialHash)]_vars

\* the center of the box is at the center of the viewport
Centered(r) == r.top + r.bottom = ViewportHeight

\* the boxes share no vertical extent, as those of sections stacked in a column
Stacked(a, b) == a.bottom <= b.top \/ b.bottom <= a.top

\* C16 as stated: of two sections with the same visible height, exactly one
\* of them centered in the viewport, the centered one is selected, whichever
\* comes first in document order
C16_CenteredWinsAlways ==
    invocation.done =>
        \A i \in ScoredPositions, j \in ScoredPositions :
            LET a == invocation.rects[i]
                b == invocation.rects[j]
            IN  (/\ i # j
                 /\ VisibleHeight(a) = VisibleHeight(b)
                 /\ Centered(a) /\ ~Centered(b))
                => invocation.active = i

\* C16: of two sections stacked in a column with the same positive visible
\* height, exactly one of them centered in the viewport, the centered one is
\* selected, whichever comes first in document order
C16_CenteredWins ==
    invocation.done =>
        \A i \in ScoredPositions, j \in ScoredPositions :
            LET a == invocation.rects[i]
                b == invocation.rects[j]
            IN  (/\ i # j
                 /\ VisibleHeight(a) = VisibleHeight(b)
                 /\ VisibleHeight(a) > 0
                 /\ Stacked(a, b)
                 /\ Centered(a) /\ ~Centered(b))
                => invocation.active = i

\* the loop has run on two stacked sections, equally visible, the second in
\* document order centered, the first fully visible too
C16_Witness ==
    /\ invocation.done
    /\ LET a == invocation.rects[2]
           b == invocation.rects[1]
       IN  /\ VisibleHeight(a) = VisibleHeight(b)
           /\ VisibleHeight(a) > 0
           /\ VisibleHeight(b) = b.bottom - b.top
           /\ Stacked(a, b)
           /\ Centered(a) /\ ~Centered(b)
    /\ invocation.active = 2

\* the registry's last report for the unit's target was that it left the
\* region, and the motion preference has not changed since
ReportedGone == Mounted /\ unit.lastNotified = "leave"

\* C24: after the registry reported that the unit's target left the region,
\* isVisible is false until the registry reports entry or the motion
\* preference changes
C24_InvisibleUntilEntry ==
    ReportedGone => ~unit.isIntersecting

\* C25: a step that issues a play request leaves (and found) the unit
\* visible, with autoplay enabled and the resource at the readiness
\* threshold, and a position it restored was restored before the request
C25_PlayOnlyWhenVisibleAndReady ==
    unit.playsIssued > 0 =>
        /\ unit.isIntersecting
        /\ unit.autoPlay
        /\ unit.readyState >= HAVE_FUTURE_DATA

\* C26: no step taken while the motion preference is reduced issues a play
\* request
C26_NoPlayWhileReduced ==
    prefersReduced => unit.playsIssued = 0

\* C27: after the registry reported that a non-priority unit's target left
\* the region while motion is not reduced, the source is detached until the
\* registry reports entry or the motion preference changes
C27_DetachedUntilEntry ==
    (ReportedGone /\ ~unit.priority /\ ~prefersReduced) => ~unit.shouldLoad

\* C30: a loaded unit never has the full volume; one configured muted is
\* either muted with volume 0 or unmuted with the volume at the policy level;
\* it changes from muted to unmuted only by the user's unmute action, which
\* sets the policy level; and once the element's volume-change event has
\* been processed the displayed mute state is the element's.
C30_MutePolicy ==
    /\ [](unit.video => unit.volume # VolumeDefault)
    /\ []((unit.video /\ unit.mutedProp) =>
             \/ unit.muted /\ unit.volume = VolumeMuted
             \/ ~unit.muted /\ unit.volume = VolumeUnmuted)
    /\ []((unit.video /\ ~unit.volumeChangePending) => unit.isMuted = unit.muted)
    /\ [][(unit.video /\ unit.muted /\ unit'.video /\ ~unit'.muted)
             => (CanUnmute(unit) /\ unit'.volume = VolumeUnmuted)]_vars

\* the user has unmuted a unit configured muted and the volume-change event
\* has been processed
C30_Witness ==
    /\ Mounted
    /\ unit.video /\ unit.mutedProp
    /\ ~unit.muted /\ unit.volume = VolumeUnmuted
    /\ ~unit.volumeChangePending
    /\ ~unit.isMuted

\* C36: a positive saved position is not overwritten with zero: while the
\* unit stays mounted, savedTimeRef once positive stays positive, also when
\* the unit leaves view again before the position has been restored to the
\* re-attached element
C36_SavedPositionKept ==
    [][(Mounted /\ unit'.phase = "mounted" /\ unit.savedTimeRef > 0)
           => unit'.savedTimeRef > 0]_vars

(***************************************************************************)
(* Properties of the page.                                                 *)
(***************************************************************************)

\* C28: the registry holds a registration, and its watcher watches an
\* element, only for components that are mounted
C28_NoRegistrationOutlivesUnit ==
    \A i \in PageUnits :
        (MapHas(entries, i) \/ i \in observedTargets)
            => tree.units[i].phase = "mounted"

\* a video that was registered has been unmounted and is registered no more,
\* while another component still is
C28_Witness ==
    \E i \in PageUnits, j \in PageUnits :
        /\ IsVideo(i)
        /\ tree.units[i].phase = "unmounted"
        /\ ~MapHas(entries, i)
        /\ MapHas(entries, j)

\* C29: the callback run for an entry of the batch changes no component but
\* the one whose element the entry names, and a step that is not a change of
\* the motion preference changes at most one component
C29_UnitsIndependent ==
    [][/\ batch # <<>> =>
            \A i \in PageUnits :
                i # Head(batch).target => tree'.units[i] = tree.units[i]
       /\ prefersReduced' = prefersReduced =>
            \A i \in PageUnits, j \in PageUnits :
                (tree'.units[i] # tree.units[i] /\ tree'.units[j] # tree.units[j])
                    => i = j]_vars

\* two videos are mounted; the registry has reported that the first left
\* the region, which detached its source, and the second is as it was
C29_Witness ==
    /\ \A i \in PageUnits : i <= 2 => IsVideo(i) /\ tree.units[i].phase = "mounted"
    /\ tree.units[1].lastNotified = "leave"
    /\ ~tree.units[1].shouldLoad
    /\ tree.units[2].lastNotified = "none"
    /\ tree.units[2].shouldLoad /\ tree.units[2].video

\* the timers of a LazyVideo that can attach or play its resource
ReloadTimers(u) ==
    <<u.rafPending, u.probeTimeouts, u.safeguardTimeout, u.retryTimers,
      u.staleRetryTimers, u.stalePlayTimers, u.pendFirst, u.pendRetry>>

\* C31: the step that handles the failure of a component's resource writes
\* the failure to the console; it leaves the component with its resource
\* attached and shown as loaded (an image's isLoaded is true; a video has no
\* loaded state and stays rendered as it was); and it makes no registry
\* call, starts no timer and no play request, and changes nothing else of
\* the component
C31_FailureLoggedAndShown ==
    [][\A i \in PageUnits :
          (tree'.report.unit = i /\ tree'.report.event = "error") =>
              LET b == tree.units[i]
                  a == tree'.units[i]
              IN  /\ tree'.report.log # NoLog
                  /\ a.phase = "mounted" /\ a.shouldLoad
                  /\ entries' = entries /\ observedTargets' = observedTargets
                  /\ IF IsVideo(i)
                     THEN /\ a.video
                          /\ ReloadTimers(a) = ReloadTimers(b)
                          /\ a = b
                     ELSE /\ a.isLoaded
                          /\ a.calls = <<>>
                          /\ [a EXCEPT !.isLoaded = b.isLoaded,
                                       !.calls = b.calls] = b]_vars

\* an image that was still hidden behind its placeholder failed to load and
\* is shown; the failure was logged
C31_Witness ==
    \E i \in PageUnits :
        /\ ~IsVideo(i)
        /\ tree.report = [unit |-> i, event |-> "error", log |-> "warn"]
        /\ tree.units[i].blurPlaceholder
        /\ tree.units[i].isLoaded
        /\ tree.units[i].shouldLoad

\* component i is a mounted LazyImage that renders its full image
LoadedImage(t, i) ==
    /\ t.kinds[i] = "image"
    /\ t.units[i].phase = "mounted"
    /\ t.units[i].shouldLoad

\* the dispatch hands a visible entry to the callback of LazyImage i
VisibleToImage(i) ==
    /\ batch # <<>>
    /\ batch' = Tail(batch)
    /\ Head(batch).isIntersecting
    /\ MapGet(entries, Head(batch).target) = i
    /\ tree.kinds[i] = "image"

\* C37: a lazy image loads once and never unloads: shouldLoad once true stays
\* true while the image is mounted; the callback that is handed a visible
\* entry makes the image load and unobserves its element; and the registry
\* holds no registration, and its watcher no target, for an image whose
\* shouldLoad is true
C37_ImageLoadsOnce ==
    [][\A i \in PageUnits :
          /\ (LoadedImage(tree, i) /\ tree'.units[i].phase = "mounted")
                 => tree'.units[i].shouldLoad
          /\ VisibleToImage(i) =>
                 /\ LoadedImage(tree', i)
                 /\ tree'.units[i].calls # <<>>
                 /\ Head(tree'.units[i].calls) = "unobserve"
          /\ LoadedImage(tree', i) =>
                 ~MapHas(entries', i) /\ i \notin observedTargets']_vars

\* an image that waited for its element to come into view has been told so:
\* it loads, and its registration is gone while the other component's stays
C37_Witness ==
    \E i \in PageUnits :
        /\ LoadedImage(tree, i)
        /\ ~tree.units[i].priority /\ ~tree.units[i].reducedMotion
        /\ tree.units[i].calls # <<>>
        /\ ~MapHas(entries, i)
        /\ entries # {}

(***************************************************************************)
(* The URL builder.                                                        *)
(***************************************************************************)
\* a width or height that is not positive, or a quality outside [1, 100]
InvalidOptions(options) ==
    \/ options.width.given /\ options.width.value <= 0
    \/ options.height.given /\ options.height.value <= 0
    \/ /\ options.quality.given
       /\ options.quality.value \notin QualityMin..QualityMax

\* C20: every call of bunnyImage with a width or height that is not positive
\* or a quality outside [1, 100] throws a validation error and returns nothing
C20_InvalidOptionsThrow ==
    (invocation.done /\ InvalidOptions(invocation.options))
        => invocation.result.kind = "thrown"

\* the names of the transform options a call provides
ProvidedOptions(options) ==
    {n \in {"width", "height", "quality", "aspect_ratio"} :
        \/ n = "width" /\ options.width.given
        \/ n = "height" /\ options.height.given
        \/ n = "quality" /\ options.quality.given
        \/ n = "aspect_ratio" /\ options.aspectRatio.given}

\* the value a provided transform option has in the URL
ProvidedValue(options, n) ==
    IF n = "width" THEN ToString(options.width.value)
    ELSE IF n = "height" THEN ToString(options.height.value)
    ELSE IF n = "quality" THEN ToString(options.quality.value)
    ELSE options.aspectRatio.value

\* the query of a URL has one parameter for each of the names and no other
CarriesExactly(params, names, options) ==
    /\ Len(params) = Cardinality(names)
    /\ \A n \in names :
          \E i \in 1..Len(params) :
              params[i].name = n /\ params[i].value = ProvidedValue(options, n)

\* a call of bunnyImage with valid options and a configured base address
ValidImageCall ==
    /\ invocation.fn = "bunnyImage"
    /\ invocation.done
    /\ ~InvalidOptions(invocation.options)
    /\ \/ invocation.options.pullZone /\ invocation.env.zone # <<>>
       \/ invocation.env.default # <<>>

ValidCall ==
    /\ invocation.done
    /\ invocation.fn = "bunnyImage" => ~InvalidOptions(invocation.options)

\* the base address the call is to use: the requested zone's, else the
\* default zone's, else none
ConfiguredBase ==
    IF invocation.options.pullZone /\ invocation.env.zone # <<>>
    THEN invocation.env.zone
    ELSE invocation.env.default

\* url is base without its trailing slash
IsWithoutTrailingSlash(url, base) ==
    /\ url # <<>>
    /\ url[Len(url)] # "/"
    /\ url \in {base, SubSeq(base, 1, Len(base) - 1)}

\* the number of slashes a path begins with
RECURSIVE LeadingSlashes(_)
LeadingSlashes(path) ==
    IF path # <<>> /\ path[1] = "/" THEN 1 + LeadingSlashes(Tail(path)) ELSE 0

\* clean is path with exactly one leading slash
IsWithOneLeadingSlash(clean, path) ==
    /\ LeadingSlashes(clean) = 1
    /\ Tail(clean) = SubSeq(path, LeadingSlashes(path) + 1, Len(path))

\* clean is path, with a slash put before it when it begins with none
IsWithLeadingSlash(clean, path) ==
    clean = IF LeadingSlashes(path) = 0 THEN <<"/">> \o path ELSE path

====
